---- MODULE Spec2Model ----
(***************************************************************************)
(* clirift: two-of-n threshold ECDSA signing (four GG20-style rounds) and  *)
(* the DKG ceremony, modelled as state machines of the coordinators.       *)
(*                                                                         *)
(* Abstraction of the arithmetic.  The scalar field is Z_q for the small   *)
(* prime q = CURVE_ORDER.  A curve point is written by its discrete        *)
(* logarithm to the base G: the point k*G is the integer k in 0..q-1 and   *)
(* 0 is the point at infinity.  Point addition is addition mod q and       *)
(* scalar multiplication is multiplication mod q, so every group identity  *)
(* the code relies on holds in the model exactly as on secp256k1.  The     *)
(* affine x-coordinate is a table that is symmetric under negation, the    *)
(* parity of y flips under negation.  Hash functions (SHA-256, HMAC-SHA512,*)
(* keccak256) are fixed deterministic functions.  Hex strings of scalars,  *)
(* points and Paillier numbers are written as the numbers they encode.     *)
(* Paillier is computed with real modular arithmetic on small primes.      *)
(***************************************************************************)
EXTENDS Integers, Sequences, FiniteSets, TLC

\* secp256k1 group order n, scaled down to a small prime.
CURVE_ORDER == 7

\* The validator's lower bound on a Paillier modulus (2^1022), scaled down.
PAILLIER_MIN_MODULUS == 64

Scalars == 0 .. (CURVE_ORDER - 1)

RECURSIVE modPow(_, _, _)
modPow(base, exp, mod) ==
  IF exp = 0 THEN 1 % mod
  ELSE LET h == modPow((base * base) % mod, exp \div 2, mod)
       IN  IF exp % 2 = 1 THEN (h * (base % mod)) % mod ELSE h

RECURSIVE gcd(_, _)
gcd(a, b) == IF b = 0 THEN a ELSE gcd(b, a % b)

lcm(a, b) == (a \div gcd(a, b)) * b

\* Extended Euclid as in the source; the result is only an inverse when
\* gcd(a, m) = 1.
RECURSIVE modInvLoop(_, _, _, _)
modInvLoop(old_r, r, old_s, s) ==
  IF r = 0 THEN old_s
  ELSE LET qt == old_r \div r
       IN  modInvLoop(r, old_r - qt * r, s, old_s - qt * s)

modInv(a, m) == ((modInvLoop(a, m, 1, 0) % m) + m) % m

\* Integer square root (floor) by Newton's method.
RECURSIVE isqrtLoop(_, _, _)
isqrtLoop(x, y, n) ==
  IF y < x THEN isqrtLoop(y, (y + n \div y) \div 2, n) ELSE x

isqrt(n) == IF n = 0 THEN 0 ELSE isqrtLoop(n, (n + 1) \div 2, n)

scalarAdd(a, b) == (a + b) % CURVE_ORDER

scalarMul(a, b) == (a * b) % CURVE_ORDER

scalarNeg(a) == (CURVE_ORDER - (a % CURVE_ORDER)) % CURVE_ORDER

\* Fermat inverse a^(n-2) mod n.
scalarInv(a) == modPow(a, CURVE_ORDER - 2, CURVE_ORDER)

\* -------------------------------------------------------------------------
\* Points (by discrete logarithm).  The library's multiply() rejects a
\* scalar outside [1, n); -1 stands for the thrown exception.
ValidMultiplier(k) == k >= 1 /\ k < CURVE_ORDER

scalarMulG(k) == IF ValidMultiplier(k) THEN k ELSE -1

pointMul(P, k) == IF ValidMultiplier(k) THEN (P * k) % CURVE_ORDER ELSE -1

pointAdd(P, Q) == (P + Q) % CURVE_ORDER

\* Affine x-coordinate reduced mod n; the point at infinity has affine (0,0).
xCoord(P) ==
  IF P = 0 THEN 0
  ELSE LET m == IF P <= CURVE_ORDER \div 2 THEN P ELSE CURVE_ORDER - P
       IN  ((2 * m) % CURVE_ORDER)

\* y mod 2 of the affine point.
yParity(P) == IF P = 0 \/ P <= CURVE_ORDER \div 2 THEN 0 ELSE 1

\* noble's verify(signature, msgHash, publicKey) with its default lowS.
ecdsaVerify(r, s, m, Q) ==
  IF ~(ValidMultiplier(r) /\ ValidMultiplier(s)) THEN FALSE
  ELSE IF s > CURVE_ORDER \div 2 THEN FALSE
  ELSE LET is == scalarInv(s)
           u1 == scalarMul(m % CURVE_ORDER, is)
           u2 == scalarMul(r, is)
           Rp == (u1 + Q * u2) % CURVE_ORDER
       IN  Rp # 0 /\ xCoord(Rp) = r

\* -------------------------------------------------------------------------
\* Maps of the session state: functions whose domain is the set of keys.
EmptyMap == <<>>

MapHas(m, k) == k \in DOMAIN m

MapSet(m, k, v) == [x \in (DOMAIN m) \cup {k} |-> IF x = k THEN v ELSE m[x]]

MapSize(m) == Cardinality(DOMAIN m)

\* -------------------------------------------------------------------------
\* Paillier.
generatePaillierKey(p, q) ==
  LET n == p * q
      lambda == lcm(p - 1, q - 1)
  IN  [n |-> n, lambda |-> lambda, mu |-> modInv(lambda, n)]

\* A faulty variant: the perfect-square check is left out.
validatePaillierModulusNoSquareCheck(n) ==
  IF n % 2 = 0 THEN "Paillier modulus is even"
  ELSE IF n < PAILLIER_MIN_MODULUS THEN "Paillier modulus is too small"
  ELSE IF gcd(n, CURVE_ORDER) # 1 THEN "Paillier modulus shares a factor with the curve order"
  ELSE ""

\* "" when the modulus is accepted, else the message of the thrown error.
validatePaillierModulus(n) ==
  IF n % 2 = 0 THEN "Paillier modulus is even"
  ELSE IF n < PAILLIER_MIN_MODULUS THEN "Paillier modulus is too small"
  ELSE IF gcd(n, CURVE_ORDER) # 1 THEN "Paillier modulus shares a factor with the curve order"
  ELSE IF isqrt(n) * isqrt(n) = n THEN "Paillier modulus is a perfect square"
  ELSE ""

\* r is the random unit the source draws.
paillierEncrypt(n, m, r) ==
  LET n2 == n * n
      mMod == ((m % n) + n) % n
      g_m == (1 + n * mMod) % n2
      r_n == modPow(r, n, n2)
  IN  (g_m * r_n) % n2

paillierL(x, n) == (x - 1) \div n

paillierDecrypt(key, c) ==
  LET n2 == key.n * key.n
      x == modPow(c, key.lambda, n2)
  IN  (paillierL(x, key.n) * key.mu) % key.n

paillierMtA(n, ciphertext, multiplier, beta, r) ==
  LET n2 == n * n
      mult == ((multiplier % n) + n) % n
      scaled == modPow(ciphertext, mult, n2)
      blindEnc == paillierEncrypt(n, beta % n, r)
  IN  (scaled * blindEnc) % n2

\* -------------------------------------------------------------------------
\* Schnorr proof of knowledge.  A context string "GG20-GAMMA-<sid>" or
\* "GG20-KI-<sid>" is written as a number that is different for every
\* (kind, sid).
ContextGamma(sessionId) == 2 * sessionId

ContextKi(sessionId) == 2 * sessionId + 1

\* SHA-256(point || R || context) mod n, as a fixed function of its inputs.
schnorrChallenge(pointHex, Rhex, context) ==
  (3 * pointHex + 5 * Rhex + context) % CURVE_ORDER

\* k is the nonce the source draws with generateScalar().
schnorrProve(scalar, pointHex, context, k) ==
  LET challenge == schnorrChallenge(pointHex, scalarMulG(k), context)
  IN  [R |-> scalarMulG(k), s |-> (k + challenge * scalar) % CURVE_ORDER]

schnorrVerify(pointHex, proof, context) ==
  IF proof.s = 0 \/ proof.s >= CURVE_ORDER THEN FALSE
  ELSE LET challenge == schnorrChallenge(pointHex, proof.R, context)
       IN  IF ~ValidMultiplier(challenge) \/ proof.R < 1 \/ pointHex < 1
           THEN FALSE
           ELSE scalarMulG(proof.s) = pointAdd(proof.R, pointMul(pointHex, challenge))

\* -------------------------------------------------------------------------
\* BIP32 tweak.  HMAC-SHA512(chainCode, pubkey || index) is a fixed function;
\* IL is its left half read as a number, IR the child chain code.
hmacIL(chainCode, pubkey, index) ==
  1 + ((2 * chainCode + 3 * pubkey + index) % (CURVE_ORDER - 1))

hmacIR(chainCode, pubkey, index) == (chainCode + pubkey + 2 * index + 1) % CURVE_ORDER

nonHardenedTweakStep(parentPubkey, parentChainCode, index) ==
  LET ILn == hmacIL(parentChainCode, parentPubkey, index)
  IN  [IL |-> ILn,
       childPubkey |-> pointAdd(scalarMulG(ILn), parentPubkey),
       childChainCode |-> hmacIR(parentChainCode, parentPubkey, index)]

computeChildKeyTweak(pkMaster, chainCode, addressIndex) ==
  LET step0 == nonHardenedTweakStep(pkMaster, chainCode, 0)
      stepIdx == nonHardenedTweakStep(step0.childPubkey, step0.childChainCode, addressIndex)
  IN  (step0.IL + stepIdx.IL) % CURVE_ORDER

\* A derivation path is written by its last component; -1 is a path whose
\* last component does not parse as a number.
parseAddressIndexOk(derivationPath) == derivationPath >= 0

\* L_i(0) for party myIdx among the signers.
RECURSIVE lagrangeNum(_)
lagrangeNum(otherIdxs) ==
  IF otherIdxs = <<>> THEN 1
  ELSE (lagrangeNum(Tail(otherIdxs))
          * ((CURVE_ORDER - Head(otherIdxs)) % CURVE_ORDER)) % CURVE_ORDER

RECURSIVE lagrangeDen(_, _)
lagrangeDen(myIdx, otherIdxs) ==
  IF otherIdxs = <<>> THEN 1
  ELSE (lagrangeDen(myIdx, Tail(otherIdxs))
          * ((myIdx - Head(otherIdxs) + CURVE_ORDER) % CURVE_ORDER)) % CURVE_ORDER

\* A faulty variant: every signer weighs its share with 1.
lagrangeCoeffUnweighted(myIdx, otherIdxs) == 1

lagrangeCoeff(myIdx, otherIdxs) ==
  scalarMul(lagrangeNum(otherIdxs), scalarInv(lagrangeDen(myIdx, otherIdxs)))

\* -------------------------------------------------------------------------
\* Transactions.  A raw transaction is [to, body]: whether the `to` field is
\* present, and a number standing for all the other fields.  keccak256 of
\* the unsigned EIP-1559 serialisation is a fixed injective function of body.
keccak256(body) == (2 * body + 1) % CURVE_ORDER

\* -1 when the source throws (rawTx.to is missing).
computeSigningHash(rawTx) == IF ~rawTx.to THEN -1 ELSE keccak256(rawTx.body)

\* The signed serialisation, as the tuple of what it encodes.
serializeTransaction(rawTx, sig) == <<rawTx.body, sig.r, sig.s, sig.v - 27>>

\* -------------------------------------------------------------------------
\* Signing session state.  A field the source leaves undefined is -1.
RECURSIVE SumFn(_)
SumFn(f) ==
  IF DOMAIN f = {} THEN 0
  ELSE LET k == CHOOSE x \in DOMAIN f : TRUE
       IN  f[k] + SumFn([x \in (DOMAIN f) \ {k} |-> f[x]])

SignerIds(signers) == {signers[i].nodeId : i \in DOMAIN signers}

createSigningSession(sessionId, txHash, rawTx, derivationPath, deadline, signers, myNodeId) ==
  IF Len(signers) # 2
  THEN [err |-> "Threshold signing requires exactly 2 signers"]
  ELSE IF myNodeId \notin SignerIds(signers)
  THEN [err |-> "This node is not in the signer list"]
  ELSE [err |-> "",
        state |->
          [sessionId |-> sessionId,
           status |-> "round1",
           txHash |-> txHash,
           rawTx |-> rawTx,
           derivationPath |-> derivationPath,
           deadline |-> deadline,
           signers |-> signers,
           mySignerIndex |-> CHOOSE i \in DOMAIN signers : signers[i].nodeId = myNodeId,
           myKi |-> -1, myGammaI |-> -1, myGammaIPoint |-> -1,
           myPaillierN |-> -1, myPaillierLambda |-> -1, myPaillierMu |-> -1,
           peerPaillierN |-> EmptyMap,
           peerKiEnc |-> EmptyMap,
           peerKiCommitment |-> EmptyMap,
           round1Received |-> EmptyMap,
           myBetaDelta |-> EmptyMap,
           myBetaSigma |-> EmptyMap,
           round2Received |-> EmptyMap,
           myDeltaI |-> -1, mySigmaI |-> -1,
           round3Received |-> EmptyMap,
           myPartialSig |-> -1, computedR |-> -1,
           round4Received |-> EmptyMap]]

MyNodeId(state) == state.signers[state.mySignerIndex].nodeId

MyPartyIndex(state) == state.signers[state.mySignerIndex].partyIndex

OtherPartyIndices(state) ==
  SelectSeq([i \in DOMAIN state.signers |->
               IF i = state.mySignerIndex THEN 0 ELSE state.signers[i].partyIndex],
            LAMBDA x : x # 0)

\* ---- Round 1 ----
\* rnd: the draws of the call: ki, gammaI, the primes p and q, the unit encR
\* of the encryption and the nonces kGamma, kKi of the two proofs.
executeSignRound1(state, rnd) ==
  LET gammaCommitment == scalarMulG(rnd.gammaI)
      kiCommitment == scalarMulG(rnd.ki)
      paillierKey == generatePaillierKey(rnd.p, rnd.q)
      kiEnc == paillierEncrypt(paillierKey.n, rnd.ki, rnd.encR)
      gammaProof == schnorrProve(rnd.gammaI, gammaCommitment,
                                 ContextGamma(state.sessionId), rnd.kGamma)
      kiProof == schnorrProve(rnd.ki, kiCommitment, ContextKi(state.sessionId), rnd.kKi)
  IN  [updatedState |->
         [state EXCEPT !.status = "round1",
                       !.myKi = rnd.ki,
                       !.myGammaI = rnd.gammaI,
                       !.myGammaIPoint = gammaCommitment,
                       !.myPaillierN = paillierKey.n,
                       !.myPaillierLambda = paillierKey.lambda,
                       !.myPaillierMu = paillierKey.mu],
       broadcast |->
         [sessionId |-> state.sessionId,
          fromNodeId |-> MyNodeId(state),
          partyIndex |-> state.mySignerIndex,
          gammaCommitment |-> gammaCommitment,
          paillierN |-> paillierKey.n,
          kiEnc |-> kiEnc,
          kiCommitment |-> kiCommitment,
          gammaProof |-> gammaProof,
          kiProof |-> kiProof]]

RecordedRound1(state, payload) ==
  [state EXCEPT
     !.round1Received = MapSet(@, payload.fromNodeId,
        [gammaCommitment |-> payload.gammaCommitment,
         paillierN |-> payload.paillierN,
         kiEnc |-> payload.kiEnc,
         kiCommitment |-> payload.kiCommitment]),
     !.peerPaillierN = MapSet(@, payload.fromNodeId, payload.paillierN),
     !.peerKiEnc = MapSet(@, payload.fromNodeId, payload.kiEnc),
     !.peerKiCommitment = MapSet(@, payload.fromNodeId, payload.kiCommitment)]

\* A faulty variant: no equivocation check, the later message replaces the
\* recorded one.
recordRound1NoDuplicateCheck(state, payload) ==
  [err |-> "", state |-> RecordedRound1(state, payload)]

recordRound1(state, payload) ==
  IF MapHas(state.round1Received, payload.fromNodeId)
  THEN [err |-> "Equivocation detected: Round 1 duplicate"]
  ELSE IF validatePaillierModulus(payload.paillierN) # ""
  THEN [err |-> validatePaillierModulus(payload.paillierN)]
  ELSE IF ~schnorrVerify(payload.gammaCommitment, payload.gammaProof,
                         ContextGamma(payload.sessionId))
  THEN [err |-> "Invalid gamma proof"]
  ELSE IF ~schnorrVerify(payload.kiCommitment, payload.kiProof,
                         ContextKi(payload.sessionId))
  THEN [err |-> "Invalid k_i proof"]
  ELSE IF payload.kiEnc < 1 \/ payload.kiEnc >= payload.paillierN * payload.paillierN
  THEN [err |-> "k_i ciphertext is out of valid Paillier range"]
  ELSE [err |-> "", state |-> RecordedRound1(state, payload)]

\* A faulty variant: the node's own key generation is not waited for.
isSignRound1CompleteIgnoringOwn(state) ==
  MapSize(state.round1Received) = Len(state.signers) - 1

isSignRound1Complete(state) ==
  MapSize(state.round1Received) = Len(state.signers) - 1 /\ state.myKi # -1

\* ---- Round 2 ----
\* rnd: the blinding scalars betaD, betaS and the encryption units rD, rS.
executeSignRound2(state, keyShare, rnd) ==
  IF state.myKi < 1 \/ state.myGammaI < 1
  THEN [err |-> "Round 1 not complete"]
  ELSE
    LET L_i == lagrangeCoeff(MyPartyIndex(state), OtherPartyIndices(state))
        LiXi == scalarMul(L_i, keyShare)
        peers == {j \in SignerIds(state.signers) \ {MyNodeId(state)} :
                    MapHas(state.peerPaillierN, j) /\ MapHas(state.peerKiEnc, j)
                    /\ state.peerPaillierN[j] # 0 /\ state.peerKiEnc[j] # 0}
        negBeta(b) == (CURVE_ORDER - (b % CURVE_ORDER)) % CURVE_ORDER
    IN  [err |-> "",
         updatedState |->
           [state EXCEPT
              !.status = "round2",
              !.myBetaDelta = [j \in (DOMAIN @) \cup peers |->
                                 IF j \in peers THEN negBeta(rnd.betaD) ELSE @[j]],
              !.myBetaSigma = [j \in (DOMAIN @) \cup peers |->
                                 IF j \in peers THEN negBeta(rnd.betaS) ELSE @[j]]],
         perPeerPayloads |->
           [j \in peers |->
              [sessionId |-> state.sessionId,
               fromNodeId |-> MyNodeId(state),
               toNodeId |-> j,
               partyIndex |-> state.mySignerIndex,
               mtaResponse |->
                 [deltaEnc |-> paillierMtA(state.peerPaillierN[j], state.peerKiEnc[j],
                                           state.myGammaI, rnd.betaD, rnd.rD),
                  sigmaEnc |-> paillierMtA(state.peerPaillierN[j], state.peerKiEnc[j],
                                           LiXi, rnd.betaS, rnd.rS)]]]]

recordRound2(state, payload) ==
  IF MapHas(state.round2Received, payload.fromNodeId)
  THEN [err |-> "Equivocation detected: Round 2 duplicate"]
  ELSE [err |-> "",
        state |-> [state EXCEPT !.round2Received =
                     MapSet(@, payload.fromNodeId, payload.mtaResponse)]]

isSignRound2Complete(state) == MapSize(state.round2Received) = Len(state.signers) - 1

\* ---- Round 3 ----
\* A faulty variant: the signer leaves its own masks out of delta_i.
executeSignRound3WithoutOwnMasks(state, keyShare) ==
  IF state.myKi < 1 \/ state.myGammaI < 1 \/ state.myPaillierN = -1
     \/ state.myPaillierLambda = -1 \/ state.myPaillierMu = -1
  THEN [err |-> "Rounds 1 and 2 must be complete before Round 3"]
  ELSE
    LET L_i == lagrangeCoeff(MyPartyIndex(state), OtherPartyIndices(state))
        LiXi == scalarMul(L_i, keyShare)
        paillierKey == [n |-> state.myPaillierN,
                        lambda |-> state.myPaillierLambda,
                        mu |-> state.myPaillierMu]
        N_i_sq == state.myPaillierN * state.myPaillierN
        from == DOMAIN state.round2Received
        inRange(c) == c >= 1 /\ c < N_i_sq
        deltaTerm == [j \in from |->
           paillierDecrypt(paillierKey, state.round2Received[j].deltaEnc) % CURVE_ORDER]
        sigmaTerm == [j \in from |->
           (paillierDecrypt(paillierKey, state.round2Received[j].sigmaEnc) % CURVE_ORDER)
           + (IF MapHas(state.myBetaSigma, j) THEN state.myBetaSigma[j] ELSE 0)]
    IN  IF \E j \in from : ~inRange(state.round2Received[j].deltaEnc)
        THEN [err |-> "MtA deltaEnc is out of valid Paillier range"]
        ELSE IF \E j \in from : ~inRange(state.round2Received[j].sigmaEnc)
        THEN [err |-> "MtA sigmaEnc is out of valid Paillier range"]
        ELSE
          LET deltaI == (scalarMul(state.myKi, state.myGammaI) + SumFn(deltaTerm)) % CURVE_ORDER
              sigmaI == (scalarMul(state.myKi, LiXi) + SumFn(sigmaTerm)) % CURVE_ORDER
          IN  [err |-> "",
               updatedState |-> [state EXCEPT !.status = "round3",
                                              !.myDeltaI = deltaI,
                                              !.mySigmaI = sigmaI],
               broadcast |-> [sessionId |-> state.sessionId,
                              fromNodeId |-> MyNodeId(state),
                              partyIndex |-> state.mySignerIndex,
                              deltaShare |-> deltaI]]

executeSignRound3(state, keyShare) ==
  IF state.myKi < 1 \/ state.myGammaI < 1 \/ state.myPaillierN = -1
     \/ state.myPaillierLambda = -1 \/ state.myPaillierMu = -1
  THEN [err |-> "Rounds 1 and 2 must be complete before Round 3"]
  ELSE
    LET L_i == lagrangeCoeff(MyPartyIndex(state), OtherPartyIndices(state))
        LiXi == scalarMul(L_i, keyShare)
        paillierKey == [n |-> state.myPaillierN,
                        lambda |-> state.myPaillierLambda,
                        mu |-> state.myPaillierMu]
        N_i_sq == state.myPaillierN * state.myPaillierN
        from == DOMAIN state.round2Received
        inRange(c) == c >= 1 /\ c < N_i_sq
        deltaTerm == [j \in from |->
           (paillierDecrypt(paillierKey, state.round2Received[j].deltaEnc) % CURVE_ORDER)
           + (IF MapHas(state.myBetaDelta, j) THEN state.myBetaDelta[j] ELSE 0)]
        sigmaTerm == [j \in from |->
           (paillierDecrypt(paillierKey, state.round2Received[j].sigmaEnc) % CURVE_ORDER)
           + (IF MapHas(state.myBetaSigma, j) THEN state.myBetaSigma[j] ELSE 0)]
    IN  IF \E j \in from : ~inRange(state.round2Received[j].deltaEnc)
        THEN [err |-> "MtA deltaEnc is out of valid Paillier range"]
        ELSE IF \E j \in from : ~inRange(state.round2Received[j].sigmaEnc)
        THEN [err |-> "MtA sigmaEnc is out of valid Paillier range"]
        ELSE
          LET deltaI == (scalarMul(state.myKi, state.myGammaI) + SumFn(deltaTerm)) % CURVE_ORDER
              sigmaI == (scalarMul(state.myKi, LiXi) + SumFn(sigmaTerm)) % CURVE_ORDER
          IN  [err |-> "",
               updatedState |-> [state EXCEPT !.status = "round3",
                                              !.myDeltaI = deltaI,
                                              !.mySigmaI = sigmaI],
               broadcast |-> [sessionId |-> state.sessionId,
                              fromNodeId |-> MyNodeId(state),
                              partyIndex |-> state.mySignerIndex,
                              deltaShare |-> deltaI]]

recordRound3(state, payload) ==
  IF MapHas(state.round3Received, payload.fromNodeId)
  THEN [err |-> "Equivocation detected: Round 3 duplicate"]
  ELSE [err |-> "",
        state |-> [state EXCEPT !.round3Received =
                     MapSet(@, payload.fromNodeId, [deltaShare |-> payload.deltaShare])]]

isSignRound3Complete(state) == MapSize(state.round3Received) = Len(state.signers) - 1

\* ---- Round 4 ----
\* Sum of the delta shares and of the gamma commitments, as both
\* executeSignRound4 and assembleSignature compute them.
DeltaSum(state) ==
  (state.myDeltaI
     + SumFn([j \in DOMAIN state.round3Received |-> state.round3Received[j].deltaShare]))
  % CURVE_ORDER

GammaPointSum(state) ==
  (state.myGammaIPoint
     + SumFn([j \in DOMAIN state.round1Received |-> state.round1Received[j].gammaCommitment]))
  % CURVE_ORDER

\* A faulty variant: a zero r is not refused.
executeSignRound4AcceptingZeroR(state, txHash) ==
  IF state.myKi < 1 \/ state.myGammaIPoint < 1 \/ state.myDeltaI = -1 \/ state.mySigmaI = -1
  THEN [err |-> "Rounds 1-3 must be complete before Round 4"]
  ELSE
    LET m == txHash
        deltaSum == DeltaSum(state)
        R == pointMul(GammaPointSum(state), scalarInv(deltaSum))
        rValue == xCoord(R) % CURVE_ORDER
        partialSig == (scalarMul(state.myKi, m) + scalarMul(rValue, state.mySigmaI))
                      % CURVE_ORDER
        sigmaCommitment == scalarMulG(state.mySigmaI)
    IN  IF deltaSum = 0 THEN [err |-> "deltaSum is zero"]
        ELSE IF sigmaCommitment = -1 THEN [err |-> "invalid scalar"]
        ELSE [err |-> "",
              updatedState |-> [state EXCEPT !.status = "round4",
                                             !.myPartialSig = partialSig,
                                             !.computedR = rValue],
              broadcast |-> [sessionId |-> state.sessionId,
                             fromNodeId |-> MyNodeId(state),
                             partyIndex |-> state.mySignerIndex,
                             partialSig |-> partialSig,
                             sigmaCommitment |-> sigmaCommitment],
              r |-> rValue]

executeSignRound4(state, txHash) ==
  IF state.myKi < 1 \/ state.myGammaIPoint < 1 \/ state.myDeltaI = -1 \/ state.mySigmaI = -1
  THEN [err |-> "Rounds 1-3 must be complete before Round 4"]
  ELSE
    LET m == txHash
        deltaSum == DeltaSum(state)
        R == pointMul(GammaPointSum(state), scalarInv(deltaSum))
        rValue == xCoord(R) % CURVE_ORDER
        partialSig == (scalarMul(state.myKi, m) + scalarMul(rValue, state.mySigmaI))
                      % CURVE_ORDER
        sigmaCommitment == scalarMulG(state.mySigmaI)
    IN  IF deltaSum = 0 THEN [err |-> "deltaSum is zero"]
        ELSE IF rValue = 0 THEN [err |-> "r-value is zero"]
        ELSE IF sigmaCommitment = -1 THEN [err |-> "invalid scalar"]
        ELSE [err |-> "",
              updatedState |-> [state EXCEPT !.status = "round4",
                                             !.myPartialSig = partialSig,
                                             !.computedR = rValue],
              broadcast |-> [sessionId |-> state.sessionId,
                             fromNodeId |-> MyNodeId(state),
                             partyIndex |-> state.mySignerIndex,
                             partialSig |-> partialSig,
                             sigmaCommitment |-> sigmaCommitment],
              r |-> rValue]

recordRound4(state, payload, rHex) ==
  IF MapHas(state.round4Received, payload.fromNodeId)
  THEN [err |-> "Equivocation detected: Round 4 duplicate"]
  ELSE IF ~MapHas(state.peerKiCommitment, payload.fromNodeId)
  THEN [err |-> "Missing k_i commitment"]
  ELSE
    LET m == state.txHash
        r == rHex
        si == payload.partialSig
        kiG == state.peerKiCommitment[payload.fromNodeId]
        DeltaI == payload.sigmaCommitment
    IN  IF si = 0 \/ si >= CURVE_ORDER
        THEN [err |-> "Partial signature out of range"]
        ELSE IF DeltaI < 1 \/ DeltaI >= CURVE_ORDER
        THEN [err |-> "bad point"]
        ELSE IF pointMul(kiG, m) = -1 \/ pointMul(DeltaI, r) = -1
        THEN [err |-> "invalid scalar"]
        ELSE IF scalarMulG(si) # pointAdd(pointMul(kiG, m), pointMul(DeltaI, r))
        THEN [err |-> "Partial signature verification failed"]
        ELSE [err |-> "",
              state |-> [state EXCEPT !.round4Received =
                           MapSet(@, payload.fromNodeId,
                                  [partialSig |-> payload.partialSig,
                                   sigmaCommitment |-> payload.sigmaCommitment])]]

isSignRound4Complete(state) == MapSize(state.round4Received) = Len(state.signers) - 1

\* A faulty variant: the peers' gamma commitments are left out.
assembleGammaSumOwnOnly(state) == state.myGammaIPoint

\* gammaSum as assembleSignature re-derives it for the recovery bit.
assembleGammaSum(state) == GammaPointSum(state)

\* A faulty variant: s is normalised and the y-parity is left as it was.
assembleSignatureParityKept(state, rHex) ==
  IF state.myPartialSig = -1 THEN [err |-> "Round 4 not complete"]
  ELSE
    LET sSum == (state.myPartialSig
                   + SumFn([j \in DOMAIN state.round4Received |->
                              state.round4Received[j].partialSig])) % CURVE_ORDER
        R == pointMul(assembleGammaSum(state), scalarInv(DeltaSum(state)))
        HALF_ORDER == CURVE_ORDER \div 2
        high == sSum > HALF_ORDER
    IN  IF R = -1 THEN [err |-> "invalid scalar"]
        ELSE [err |-> "",
              sig |-> [r |-> rHex,
                       s |-> IF high THEN CURVE_ORDER - sSum ELSE sSum,
                       v |-> yParity(R) + 27]]

assembleSignature(state, rHex) ==
  IF state.myPartialSig = -1 THEN [err |-> "Round 4 not complete"]
  ELSE
    LET sSum == (state.myPartialSig
                   + SumFn([j \in DOMAIN state.round4Received |->
                              state.round4Received[j].partialSig])) % CURVE_ORDER
        R == pointMul(assembleGammaSum(state), scalarInv(DeltaSum(state)))
        HALF_ORDER == CURVE_ORDER \div 2
        high == sSum > HALF_ORDER
    IN  IF R = -1 THEN [err |-> "invalid scalar"]
        ELSE [err |-> "",
              sig |-> [r |-> rHex,
                       s |-> IF high THEN CURVE_ORDER - sSum ELSE sSum,
                       v |-> (IF high THEN 1 - yParity(R) ELSE yParity(R)) + 27]]

\* =========================================================================
\* The state of the cluster.
VARIABLES
  coord,     \* coord[n]: the fields of node n's SigningCoordinator
  dkg,       \* dkg[n]: the fields of node n's DkgCoordinator
  tasks,     \* tasks[n]: the continuations of n suspended at an await
  chan,      \* chan[<<a, b>>]: messages sent by a and not yet handled by b
  emitted,   \* emitted[n]: the 'complete' and 'aborted' events of n, in order
  sent,      \* sent[n]: every message n handed to the node server, in order
  now,       \* the clock (Date.now())
  uuids,     \* how many session ids uuidv4() has produced
  raced,     \* the <<node, session id>> pairs where a peer's SIGN_ROUND1 was
             \* recorded while the node's own executeSignRound1 was suspended
  budget,    \* the environment: the nodes of the cluster; what may still
             \* happen (sign requests, clock ticks, duplicated messages,
             \* crafted messages); the values the random generators yield
  turn,      \* the parity of the number of callbacks the event loops ran
  call,      \* the library function under evaluation: its name, its
             \* arguments and, once it returned, its result
  net        \* the NodeServers: the connections, the frames on them, each
             \* node's seenMessageIds and what it emitted to its listeners

vars == <<coord, dkg, tasks, chan, emitted, sent, now, uuids, raced, budget, turn, call, net>>

\* The machines that run a node.
NodeIds == {1, 2, 3}

\* The nodes of the cluster: the machines connected to one another.  Node i
\* holds the Shamir share f(i) of a polynomial f of degree threshold - 1 over
\* Z_q: f(x) = 1 + 2x for threshold 2 and f(x) = 1 + 2x + x^2 for threshold 3,
\* so the master secret is 1 and the master public key is G.
Nodes == budget.nodes

SharePolynomial == IF budget.threshold = 2 THEN <<1, 2>> ELSE <<1, 2, 1>>

KeyShareOf ==
  [n \in Nodes |->
     [partyIndex |-> n,
      secretShare |-> SumFn([k \in DOMAIN SharePolynomial |->
                              SharePolynomial[k] * n ^ (k - 1)]) % CURVE_ORDER,
      pkMaster |-> scalarMulG(1),
      chainCode |-> 0,
      threshold |-> budget.threshold]]

NoKeyShare ==
  [partyIndex |-> 0, secretShare |-> 0, pkMaster |-> 0, chainCode |-> 0, threshold |-> 0]

\* The session timeout opts.timeoutMs, in ticks of the model's clock.
TimeoutMs == 1

NoSession == [sessionId |-> 0]

NoRawTx == [to |-> FALSE, body |-> 0]

NoTimer == [armed |-> FALSE, sessionId |-> 0, due |-> 0]

NoSig == [r |-> 0, s |-> 0, v |-> 0]

NoRequest == [sessionId |-> 0]

InitCoordinator ==
  [session |-> NoSession,
   acceptedSigners |-> EmptyMap,
   pendingRawTx |-> NoRawTx,
   pendingTxHash |-> -1,
   pendingDerivationPath |-> -1,
   initiatorKeyShare |-> NoKeyShare,
   cachedSecretShare |-> -1,
   sessionPending |-> FALSE,
   cachedR |-> -1,
   alreadyFinalized |-> FALSE,
   timeoutHandle |-> NoTimer]

HasSession(c) == c.session.sessionId # 0

\* What one run of a handler does: the coordinator's fields after it, the
\* messages it sent (in order), the events it emitted (in order) and the
\* continuations it left suspended at an await.
Res(c, out, ev, spawn) == [c |-> c, out |-> out, ev |-> ev, spawn |-> spawn]

Stay(c) == Res(c, <<>>, <<>>, {})

AndThen(r1, r2) ==
  Res(r2.c, r1.out \o r2.out, r1.ev \o r2.ev, r1.spawn \cup r2.spawn)

Msg(to, type, payload) == [to |-> to, type |-> type, payload |-> payload]

RECURSIVE SeqOfSet(_)
SeqOfSet(S) ==
  IF S = {} THEN <<>>
  ELSE LET x == CHOOSE y \in S : \A z \in S : y <= z
       IN  <<x>> \o SeqOfSet(S \ {x})

\* nodeServer.broadcast: one copy to every other node.
Broadcast(n, type, payload) ==
  LET dst == SeqOfSet(Nodes \ {n})
  IN  [i \in DOMAIN dst |-> Msg(dst[i], type, payload)]

AbortedEvent(reason) ==
  [event |-> "aborted", reason |-> reason, sig |-> NoSig, signedTxHex |-> <<>>,
   sessionId |-> 0, txHash |-> -1, derivationPath |-> -1, via |-> ""]

\* sessionId, txHash, derivationPath and via are not arguments of the emitted
\* event: they record the session the coordinator held when it emitted, and
\* the handler that emitted.
CompleteEvent(sig, signedTxHex, session, via) ==
  [event |-> "complete", reason |-> "", sig |-> sig, signedTxHex |-> signedTxHex,
   sessionId |-> session.sessionId, txHash |-> session.txHash,
   derivationPath |-> session.derivationPath, via |-> via]

clearTimeout(c) == [c EXCEPT !.timeoutHandle = NoTimer]

startTimeout(c, sessionId, clock) ==
  [c EXCEPT !.timeoutHandle =
     [armed |-> TRUE, sessionId |-> sessionId, due |-> clock + TimeoutMs]]

\* A faulty variant: the session is kept.
resetStateKeepingSession(c) ==
  [c EXCEPT !.acceptedSigners = EmptyMap,
            !.pendingRawTx = NoRawTx,
            !.pendingTxHash = -1,
            !.pendingDerivationPath = -1,
            !.initiatorKeyShare = NoKeyShare,
            !.cachedSecretShare = -1,
            !.cachedR = -1,
            !.sessionPending = FALSE,
            !.alreadyFinalized = FALSE]

\* A faulty variant: the cached tweaked share is kept.
resetStateKeepingShare(c) ==
  [c EXCEPT !.session = NoSession,
            !.acceptedSigners = EmptyMap,
            !.pendingRawTx = NoRawTx,
            !.pendingTxHash = -1,
            !.pendingDerivationPath = -1,
            !.initiatorKeyShare = NoKeyShare,
            !.cachedR = -1,
            !.sessionPending = FALSE,
            !.alreadyFinalized = FALSE]

resetState(c) ==
  [c EXCEPT !.session = NoSession,
            !.acceptedSigners = EmptyMap,
            !.pendingRawTx = NoRawTx,
            !.pendingTxHash = -1,
            !.pendingDerivationPath = -1,
            !.initiatorKeyShare = NoKeyShare,
            !.cachedSecretShare = -1,
            !.cachedR = -1,
            !.sessionPending = FALSE,
            !.alreadyFinalized = FALSE]

abort(c, reason) ==
  Res(resetState(clearTimeout(c)), <<>>, <<AbortedEvent(reason)>>, {})

checkDeadline(c, clock) == ~(HasSession(c) /\ clock > c.session.deadline)

\* ---- startRound2 .. startRound4 ----
startRound2(n, c, rnd) ==
  IF ~HasSession(c) \/ c.session.status # "round1" THEN Stay(c)
  ELSE
    LET r == executeSignRound2([c.session EXCEPT !.status = "round2"],
                               c.cachedSecretShare, rnd)
    IN  IF c.cachedSecretShare = -1 THEN abort(c, "no key share")
        ELSE IF r.err # "" THEN abort(c, r.err)
        ELSE
          LET dst == SeqOfSet(DOMAIN r.perPeerPayloads)
          IN  Res([c EXCEPT !.session = r.updatedState],
                  [i \in DOMAIN dst |->
                     Msg(dst[i], "SIGN_ROUND2", r.perPeerPayloads[dst[i]])],
                  <<>>, {})

startRound3(n, c) ==
  IF ~HasSession(c) \/ c.session.status # "round2" THEN Stay(c)
  ELSE
    LET r == executeSignRound3([c.session EXCEPT !.status = "round3"],
                               c.cachedSecretShare)
    IN  IF c.cachedSecretShare = -1 THEN abort(c, "no key share")
        ELSE IF r.err # "" THEN abort(c, r.err)
        ELSE Res([c EXCEPT !.session = r.updatedState],
                 Broadcast(n, "SIGN_ROUND3", r.broadcast), <<>>, {})

startRound4(n, c) ==
  IF ~HasSession(c) \/ c.session.status # "round3" THEN Stay(c)
  ELSE
    LET r == executeSignRound4([c.session EXCEPT !.status = "round4"], c.session.txHash)
    IN  IF r.err # "" THEN abort(c, r.err)
        ELSE Res([c EXCEPT !.session = r.updatedState, !.cachedR = r.r],
                 Broadcast(n, "SIGN_ROUND4", r.broadcast), <<>>, {})

\* ---- Suspended continuations ----
TaskInitiate(rawTx, derivationPath, txHash) ==
  [kind |-> "initiate", rawTx |-> rawTx, derivationPath |-> derivationPath,
   txHash |-> txHash]

TaskRequest(payload) == [kind |-> "onRequest", payload |-> payload]

\* state is the session object executeSignRound1 was called with.
TaskRound1(state) == [kind |-> "startRound1", state |-> state]

TaskFinalize(sig) == [kind |-> "finalize", sig |-> sig]

\* ---- initiate ----
\* Up to the await of keyShareStore.load().
initiate(c, rawTx, derivationPath, txHash) ==
  Res([c EXCEPT !.pendingRawTx = rawTx,
                !.pendingTxHash = txHash,
                !.pendingDerivationPath = derivationPath],
      <<>>, <<>>, {TaskInitiate(rawTx, derivationPath, txHash)})

\* After the await; sessionId is the fresh uuid.
initiateResume(n, c, task, sessionId, clock) ==
  LET keyShare == KeyShareOf[n]
      request == [sessionId |-> sessionId,
                  initiatorNodeId |-> n,
                  initiatorPartyIndex |-> keyShare.partyIndex,
                  txHash |-> task.txHash,
                  rawTx |-> task.rawTx,
                  derivationPath |-> task.derivationPath,
                  deadline |-> clock + TimeoutMs]
  IN  Res(startTimeout([c EXCEPT !.initiatorKeyShare = keyShare], sessionId, clock),
          Broadcast(n, "SIGN_REQUEST", request), <<>>, {})

\* ---- startRound1 ----
\* Up to the await inside executeSignRound1.
startRound1(c) ==
  IF ~HasSession(c) THEN Stay([c EXCEPT !.sessionPending = FALSE])
  ELSE Res(c, <<>>, <<>>, {TaskRound1(c.session)})

\* A faulty variant: the session is replaced by the object the key
\* generation returned.
startRound1MergeOverwriting(session, u) == u

\* The merge of the generated fields into the current session.
startRound1Merge(session, u) ==
  [session EXCEPT !.myKi = u.myKi,
                  !.myGammaI = u.myGammaI,
                  !.myGammaIPoint = u.myGammaIPoint,
                  !.myPaillierN = u.myPaillierN,
                  !.myPaillierLambda = u.myPaillierLambda,
                  !.myPaillierMu = u.myPaillierMu,
                  !.status = "round1"]

\* A faulty variant: Round 1 completeness is not looked at again.
startRound1AdvanceNever(n, c1, rnd) == Stay(c1)

\* The last statement of startRound1.
startRound1Advance(n, c1, rnd) ==
  IF isSignRound1Complete(c1.session) THEN startRound2(n, c1, rnd) ELSE Stay(c1)

\* After the await, to the end of the onRequest or onAccept that called it.
startRound1Resume(n, c, task, rnd) ==
  LET r == executeSignRound1(task.state, rnd)
  IN  IF ~HasSession(c) THEN Stay([c EXCEPT !.sessionPending = FALSE])
      ELSE
        LET c1 == [c EXCEPT !.session = startRound1Merge(@, r.updatedState)]
            sent1 == Res(c1, Broadcast(n, "SIGN_ROUND1", r.broadcast), <<>>, {})
            r2 == AndThen(sent1, startRound1Advance(n, c1, rnd))
        IN  [r2 EXCEPT !.c = [@ EXCEPT !.sessionPending = FALSE]]

\* ---- onRequest ----
\* A faulty variant: the signing hash is not recomputed.
onRequestTrustingHash(c, payload, clock) ==
  IF HasSession(c) \/ c.sessionPending THEN Stay(c)
  ELSE IF clock >= payload.deadline THEN Stay(c)
  ELSE Res([c EXCEPT !.sessionPending = TRUE], <<>>, <<>>, {TaskRequest(payload)})

onRequest(c, payload, clock) ==
  IF HasSession(c) \/ c.sessionPending THEN Stay(c)
  ELSE IF clock >= payload.deadline THEN Stay(c)
  ELSE IF computeSigningHash(payload.rawTx) = -1 THEN Stay(c)
  ELSE IF computeSigningHash(payload.rawTx) # payload.txHash THEN Stay(c)
  ELSE Res([c EXCEPT !.sessionPending = TRUE], <<>>, <<>>, {TaskRequest(payload)})

\* After the await of keyShareStore.load().
onRequestResume(n, c, task, clock) ==
  LET payload == task.payload
      keyShare == KeyShareOf[n]
      tweak == computeChildKeyTweak(keyShare.pkMaster, keyShare.chainCode,
                                    payload.derivationPath)
      c1 == [c EXCEPT !.cachedSecretShare = (keyShare.secretShare + tweak) % CURVE_ORDER]
      accept == [sessionId |-> payload.sessionId, nodeId |-> n,
                 partyIndex |-> keyShare.partyIndex]
      sentAccept == Res(c1, <<Msg(payload.initiatorNodeId, "SIGN_ACCEPT", accept)>>,
                        <<>>, {})
      cs == createSigningSession(payload.sessionId, payload.txHash, payload.rawTx,
              payload.derivationPath, payload.deadline,
              << [nodeId |-> payload.initiatorNodeId,
                  partyIndex |-> payload.initiatorPartyIndex],
                 [nodeId |-> n, partyIndex |-> keyShare.partyIndex] >>, n)
  IN  IF ~parseAddressIndexOk(payload.derivationPath)
      THEN abort(c, "Invalid derivation path")
      ELSE IF cs.err # "" THEN AndThen(sentAccept, abort(c1, cs.err))
      ELSE AndThen(sentAccept,
                   startRound1(startTimeout([c1 EXCEPT !.session = cs.state],
                                            payload.sessionId, clock)))

\* ---- onAccept ----
AcceptedSignerSeq(acceptedSigners) ==
  LET ks == SeqOfSet(DOMAIN acceptedSigners)
  IN  [i \in DOMAIN ks |-> [nodeId |-> acceptedSigners[ks[i]].nodeId,
                            partyIndex |-> acceptedSigners[ks[i]].partyIndex]]

onAccept(n, c, fromNodeId, payload, clock) ==
  LET c0 == [c EXCEPT !.acceptedSigners = MapSet(@, fromNodeId, payload)]
  IN  IF ~(MapSize(c0.acceptedSigners) >= 1 /\ ~HasSession(c0) /\ ~c0.sessionPending)
      THEN Stay(c0)
      ELSE
        LET keyShare == c0.initiatorKeyShare
            tweak == computeChildKeyTweak(keyShare.pkMaster, keyShare.chainCode,
                                          c0.pendingDerivationPath)
            c1 == [c0 EXCEPT !.sessionPending = TRUE,
                             !.cachedSecretShare =
                                (keyShare.secretShare + tweak) % CURVE_ORDER]
            allSigners == << [nodeId |-> n, partyIndex |-> keyShare.partyIndex] >>
                          \o AcceptedSignerSeq(c0.acceptedSigners)
            cs == createSigningSession(payload.sessionId, c0.pendingTxHash,
                    c0.pendingRawTx, c0.pendingDerivationPath, clock + TimeoutMs,
                    allSigners, n)
        IN  IF keyShare = NoKeyShare
            THEN abort(c0, "Cannot read properties of null")
            ELSE IF ~parseAddressIndexOk(c0.pendingDerivationPath)
            THEN abort(c0, "Invalid derivation path")
            ELSE IF cs.err # "" THEN abort(c0, cs.err)
            ELSE startRound1([c1 EXCEPT !.session = cs.state])

\* ---- finalize ----
\* Up to the await of keyShareStore.load().
finalize(c) ==
  IF ~HasSession(c) \/ c.cachedR = -1 THEN Stay(c)
  ELSE
    LET a == assembleSignature(c.session, c.cachedR)
    IN  IF a.err # "" THEN abort(c, a.err)
        ELSE Res([c EXCEPT !.alreadyFinalized = TRUE], <<>>, <<>>, {TaskFinalize(a.sig)})

\* A faulty variant: the outcome of the verification is not looked at.
finalizeVerifySkipped(c, sig, derivedPubKey) == TRUE

\* The outcome of nobleSecp.verify on the assembled signature.
finalizeVerify(c, sig, derivedPubKey) ==
  ecdsaVerify(sig.r, sig.s, c.session.txHash, derivedPubKey)

\* After the await.  this.session is read again here.
finalizeResume(n, c, task) ==
  LET sig == task.sig
      keyShare == KeyShareOf[n]
  IN  IF ~HasSession(c)
      THEN abort(c, "Signature verification threw")
      ELSE
        LET tweak == computeChildKeyTweak(keyShare.pkMaster, keyShare.chainCode,
                                          c.session.derivationPath)
            derivedPubKey == pointAdd(keyShare.pkMaster, scalarMulG(tweak))
            signedTxHex == serializeTransaction(c.session.rawTx, sig)
            complete == [sessionId |-> c.session.sessionId,
                         signature |-> sig,
                         signedTxHex |-> signedTxHex]
        IN  IF ~parseAddressIndexOk(c.session.derivationPath)
               \/ scalarMulG(tweak) = -1 \/ derivedPubKey = 0
            THEN abort(c, "Signature verification threw")
            ELSE IF ~finalizeVerify(c, sig, derivedPubKey)
            THEN abort(c, "Signature verification failed")
            ELSE IF ~c.session.rawTx.to
            THEN abort(c, "Cannot serialize transaction: rawTx.to is missing")
            ELSE Res(resetState(clearTimeout(c)),
                     Broadcast(n, "SIGN_COMPLETE", complete),
                     <<CompleteEvent(sig, signedTxHex, c.session, "finalize")>>, {})

\* ---- onRound1 .. onRound4 ----
IsSigner(c, nodeId) == nodeId \in SignerIds(c.session.signers)

onRound1(n, c, fromNodeId, payload, rnd, clock) ==
  IF ~HasSession(c) \/ payload.sessionId # c.session.sessionId THEN Stay(c)
  ELSE IF ~IsSigner(c, payload.fromNodeId) THEN Stay(c)
  ELSE IF fromNodeId # payload.fromNodeId THEN abort(c, "Round 1 sender mismatch")
  ELSE IF ~checkDeadline(c, clock) THEN abort(c, "deadline exceeded")
  ELSE
    LET r == recordRound1(c.session, payload)
        c1 == [c EXCEPT !.session = r.state]
    IN  IF r.err # "" THEN abort(c, r.err)
        ELSE IF isSignRound1Complete(c1.session) THEN startRound2(n, c1, rnd)
        ELSE Stay(c1)

onRound2(n, c, fromNodeId, payload, clock) ==
  IF ~HasSession(c) \/ payload.sessionId # c.session.sessionId THEN Stay(c)
  ELSE IF payload.toNodeId # n THEN Stay(c)
  ELSE IF ~IsSigner(c, payload.fromNodeId) THEN Stay(c)
  ELSE IF fromNodeId # payload.fromNodeId THEN abort(c, "Round 2 sender mismatch")
  ELSE IF ~checkDeadline(c, clock) THEN abort(c, "deadline exceeded")
  ELSE
    LET r == recordRound2(c.session, payload)
        c1 == [c EXCEPT !.session = r.state]
    IN  IF r.err # "" THEN abort(c, r.err)
        ELSE IF isSignRound2Complete(c1.session) THEN startRound3(n, c1)
        ELSE Stay(c1)

onRound3(n, c, fromNodeId, payload, clock) ==
  IF ~HasSession(c) \/ payload.sessionId # c.session.sessionId THEN Stay(c)
  ELSE IF ~IsSigner(c, payload.fromNodeId) THEN Stay(c)
  ELSE IF fromNodeId # payload.fromNodeId THEN abort(c, "Round 3 sender mismatch")
  ELSE IF ~checkDeadline(c, clock) THEN abort(c, "deadline exceeded")
  ELSE
    LET r == recordRound3(c.session, payload)
        c1 == [c EXCEPT !.session = r.state]
    IN  IF r.err # "" THEN abort(c, r.err)
        ELSE IF isSignRound3Complete(c1.session) THEN startRound4(n, c1)
        ELSE Stay(c1)

onRound4(n, c, fromNodeId, payload, clock) ==
  IF ~HasSession(c) \/ payload.sessionId # c.session.sessionId THEN Stay(c)
  ELSE IF ~IsSigner(c, payload.fromNodeId) THEN Stay(c)
  ELSE IF fromNodeId # payload.fromNodeId THEN abort(c, "Round 4 sender mismatch")
  ELSE IF ~checkDeadline(c, clock) THEN abort(c, "deadline exceeded")
  ELSE IF c.cachedR = -1
  THEN abort(c, "Received Round 4 message before our own Round 4 was computed")
  ELSE
    LET r == recordRound4(c.session, payload, c.cachedR)
        c1 == [c EXCEPT !.session = r.state]
    IN  IF r.err # "" THEN abort(c, r.err)
        ELSE IF isSignRound4Complete(c1.session) THEN finalize(c1)
        ELSE Stay(c1)

\* ---- onComplete ----
onComplete(c, payload) ==
  IF c.alreadyFinalized THEN Stay(c)
  ELSE IF ~HasSession(c) \/ payload.sessionId # c.session.sessionId THEN Stay(c)
  ELSE Res(resetState(clearTimeout(c)), <<>>,
           <<CompleteEvent(payload.signature, payload.signedTxHex, c.session,
                           "onComplete")>>, {})

\* ---- handleMessage ----
handleMessage(n, c, fromNodeId, msg, rnd, clock) ==
  CASE msg.type = "SIGN_REQUEST" -> onRequest(c, msg.payload, clock)
    [] msg.type = "SIGN_ACCEPT" -> onAccept(n, c, fromNodeId, msg.payload, clock)
    [] msg.type = "SIGN_ROUND1" -> onRound1(n, c, fromNodeId, msg.payload, rnd, clock)
    [] msg.type = "SIGN_ROUND2" -> onRound2(n, c, fromNodeId, msg.payload, clock)
    [] msg.type = "SIGN_ROUND3" -> onRound3(n, c, fromNodeId, msg.payload, clock)
    [] msg.type = "SIGN_ROUND4" -> onRound4(n, c, fromNodeId, msg.payload, clock)
    [] msg.type = "SIGN_COMPLETE" -> onComplete(c, msg.payload)
    [] msg.type = "SIGN_ABORT" -> abort(c, msg.payload.reason)
    [] OTHER -> Stay(c)

\* =========================================================================
\* Distributed key generation: the round functions.
\* sha256 is a fixed collision-free function of the bytes it is fed.
sha256(bytes) == <<"sha256", bytes>>

\* pointToHex of the point at infinity throws.
pointToHexOk(P) == P >= 1 /\ P < CURVE_ORDER

pedersenCommit(coefficientPoints, blindingFactor) ==
  sha256(coefficientPoints \o <<blindingFactor>>)

pedersenVerify(commitment, coefficientPoints, blindingFactor) ==
  pedersenCommit(coefficientPoints, blindingFactor) = commitment

DkgContext(ceremonyId, partyIndex) == 2 * ceremonyId + partyIndex

\* e = H(R || P || context) mod n.
commitmentSchnorrChallenge(R, P, context) == (3 * R + 5 * P + context) % CURVE_ORDER

\* k is the nonce the source draws with generateScalar().
commitmentSchnorrProve(secret, publicPoint, context, k) ==
  LET R == scalarMulG(k)
      e == commitmentSchnorrChallenge(R, publicPoint, context)
      es == (e * secret) % CURVE_ORDER
  IN  [R |-> R, s |-> (((k - es) % CURVE_ORDER) + CURVE_ORDER) % CURVE_ORDER]

\* "valid", "invalid", or "throws" when a multiplication by 0 or the encoding
\* of the point at infinity throws.
commitmentSchnorrVerify(publicPoint, proof, context) ==
  LET e == commitmentSchnorrChallenge(proof.R, publicPoint, context)
      sG == scalarMulG(proof.s)
      eP == pointMul(publicPoint, e)
  IN  IF sG = -1 \/ eP = -1 THEN "throws"
      ELSE IF ~pointToHexOk(pointAdd(sG, eP)) THEN "throws"
      ELSE IF pointAdd(sG, eP) = proof.R THEN "valid" ELSE "invalid"

\* coeffs: the threshold - 1 random coefficients the source draws.
generatePolynomial(secret, threshold, coeffs) ==
  IF threshold < 2 THEN [err |-> "Threshold must be at least 2"]
  ELSE [err |-> "", polynomial |-> <<secret>> \o SubSeq(coeffs, 1, threshold - 1)]

RECURSIVE evaluatePolynomialFrom(_, _, _, _, _)
evaluatePolynomialFrom(coefficients, x, i, result, xPow) ==
  IF i > Len(coefficients) THEN result
  ELSE evaluatePolynomialFrom(coefficients, x, i + 1,
                              (result + coefficients[i] * xPow) % CURVE_ORDER,
                              (xPow * x) % CURVE_ORDER)

evaluatePolynomial(coefficients, x) == evaluatePolynomialFrom(coefficients, x, 1, 0, 1)

\* ---- crypto/shamir.ts ----
\* The % of two bigints: the sign of the result is that of the dividend.
bigintRem(a, m) == IF a >= 0 THEN a % m ELSE -((-a) % m)

\* num and den after the loop over allIndices[i..], the party's own index
\* skipped.
RECURSIVE lagrangeCoefficientLoop(_, _, _, _, _)
lagrangeCoefficientLoop(partyIndex, allIndices, i, num, den) ==
  IF i > Len(allIndices) THEN <<num, den>>
  ELSE IF allIndices[i] = partyIndex
  THEN lagrangeCoefficientLoop(partyIndex, allIndices, i + 1, num, den)
  ELSE lagrangeCoefficientLoop(partyIndex, allIndices, i + 1,
                               bigintRem(num * allIndices[i], CURVE_ORDER),
                               bigintRem(den * (allIndices[i] - partyIndex), CURVE_ORDER))

\* A faulty variant: the fraction is taken upside down.
lagrangeCoefficientInverted(partyIndex, allIndices) ==
  LET nd == lagrangeCoefficientLoop(partyIndex, allIndices, 1, 1, 1)
      den == (bigintRem(nd[2], CURVE_ORDER) + CURVE_ORDER) % CURVE_ORDER
  IN  bigintRem(den * modInv(nd[1], CURVE_ORDER), CURVE_ORDER)

lagrangeCoefficient(partyIndex, allIndices) ==
  LET nd == lagrangeCoefficientLoop(partyIndex, allIndices, 1, 1, 1)
      den == (bigintRem(nd[2], CURVE_ORDER) + CURVE_ORDER) % CURVE_ORDER
      denInv == modInv(den, CURVE_ORDER)
  IN  bigintRem(nd[1] * denInv, CURVE_ORDER)

\* shares: the entries of the Map, <<partyIndex, share>>, in insertion order.
RECURSIVE reconstructSecretLoop(_, _, _, _)
reconstructSecretLoop(shares, allIndices, i, secret) ==
  IF i > Len(shares) THEN secret
  ELSE reconstructSecretLoop(shares, allIndices, i + 1,
         bigintRem(secret + shares[i][2] * lagrangeCoefficient(shares[i][1], allIndices),
                   CURVE_ORDER))

reconstructSecret(shares) ==
  LET allIndices == [i \in DOMAIN shares |-> shares[i][1]]
      secret == reconstructSecretLoop(shares, allIndices, 1, 0)
  IN  (bigintRem(secret, CURVE_ORDER) + CURVE_ORDER) % CURVE_ORDER

RECURSIVE feldmanRhs(_, _, _, _, _)
\* -1 when a multiplication throws.
feldmanRhs(commitments, iBig, k, rhs, iPow) ==
  IF k > Len(commitments) THEN rhs
  ELSE LET term == IF iPow = 1 THEN commitments[k] ELSE pointMul(commitments[k], iPow)
       IN  IF term = -1 THEN -1
           ELSE feldmanRhs(commitments, iBig, k + 1,
                           IF k = 1 THEN term ELSE pointAdd(rhs, term), iPow * iBig)

\* "valid", "invalid" or "throws".
verifyFeldmanShare(share, partyIndex, commitments) ==
  LET lhs == scalarMulG(share)
      rhs == feldmanRhs(commitments, partyIndex, 1, 0, 1)
  IN  IF lhs = -1 \/ rhs = -1 THEN "throws"
      ELSE IF commitments = <<>> THEN "invalid"
      ELSE IF ~pointToHexOk(rhs) THEN "throws"
      ELSE IF lhs = rhs THEN "valid" ELSE "invalid"

RECURSIVE combinePoints(_, _)
combinePoints(points, k) ==
  IF k = 1 THEN points[1] ELSE pointAdd(combinePoints(points, k - 1), points[k])

combinePkMaster(allInterceptCommitments) ==
  IF allInterceptCommitments = <<>> THEN [err |-> "No commitments provided"]
  ELSE LET total == combinePoints(allInterceptCommitments, Len(allInterceptCommitments))
       IN  IF pointToHexOk(total) THEN [err |-> "", pkMaster |-> total]
           ELSE [err |-> "bad point: ZERO"]

\* HMAC-SHA512("CLIRift v1", pkMaster)[32:], a fixed function.
dkgChainCode(pkMaster) == (3 * pkMaster + 1) % CURVE_ORDER

NoDkgState == [ceremonyId |-> 0]

createInitialDkgState(ceremonyId, myPartyIndex, participants, threshold, totalParties) ==
  [ceremonyId |-> ceremonyId,
   status |-> "proposed",
   myPartyIndex |-> myPartyIndex,
   participants |-> participants,
   threshold |-> threshold,
   totalParties |-> totalParties,
   secretPolynomial |-> <<>>,
   myCoeffCommitments |-> <<>>,
   myBlindingFactor |-> -1,
   round1Received |-> EmptyMap,
   round2Received |-> EmptyMap,
   sharesReceived |-> EmptyMap,
   publicKeySharesReceived |-> EmptyMap,
   myKeyShare |-> -1,
   pkMaster |-> -1,
   chainCode |-> -1]

DkgMyNodeId(state) ==
  LET i == CHOOSE j \in DOMAIN state.participants :
             state.participants[j].partyIndex = state.myPartyIndex
  IN  state.participants[i].nodeId

\* ---- DKG Round 1 ----
\* rnd: the values of generateScalar(), randomBytes and generateBlindingFactor().
executeRound1(state, rnd) ==
  LET g == generatePolynomial(rnd.secret, state.threshold, rnd.coeffs)
  IN  IF g.err # "" THEN g
      ELSE
        LET polynomial == g.polynomial
            coeffPoints == [i \in DOMAIN polynomial |-> scalarMulG(polynomial[i])]
        IN  IF \E i \in DOMAIN coeffPoints : coeffPoints[i] = -1
            THEN [err |-> "invalid scalar"]
            ELSE [err |-> "",
                  updatedState |->
                    [state EXCEPT !.status = "round1",
                                  !.secretPolynomial = polynomial,
                                  !.myCoeffCommitments = coeffPoints,
                                  !.myBlindingFactor = rnd.blinding],
                  broadcast |->
                    [ceremonyId |-> state.ceremonyId,
                     fromNodeId |-> DkgMyNodeId(state),
                     partyIndex |-> state.myPartyIndex,
                     commitment |-> pedersenCommit(coeffPoints, rnd.blinding)]]

dkgRecordRound1(state, payload) ==
  [err |-> "",
   state |-> [state EXCEPT !.round1Received =
                MapSet(@, payload.fromNodeId, payload.commitment)]]

isRound1Complete(state) == MapSize(state.round1Received) = state.totalParties - 1

\* ---- DKG Round 2 ----
executeRound2(state, rnd) ==
  IF state.secretPolynomial = <<>> \/ state.myCoeffCommitments = <<>>
     \/ state.myBlindingFactor = -1
  THEN [err |-> "Round 1 must be completed before Round 2"]
  ELSE
    LET a0 == state.secretPolynomial[1]
        a0G == scalarMulG(a0)
    IN  IF a0G = -1 THEN [err |-> "invalid scalar"]
        ELSE [err |-> "",
              updatedState |-> [state EXCEPT !.status = "round2"],
              broadcast |->
                [ceremonyId |-> state.ceremonyId,
                 fromNodeId |-> DkgMyNodeId(state),
                 partyIndex |-> state.myPartyIndex,
                 coefficientCommitments |-> state.myCoeffCommitments,
                 zkProof |-> commitmentSchnorrProve(a0, a0G,
                               DkgContext(state.ceremonyId, state.myPartyIndex), rnd.k),
                 blindingFactor |-> state.myBlindingFactor]]

dkgRecordRound2(state, payload) ==
  IF ~MapHas(state.round1Received, payload.fromNodeId)
  THEN [err |-> "No Round 1 commitment found"]
  ELSE IF ~pedersenVerify(state.round1Received[payload.fromNodeId],
                          payload.coefficientCommitments, payload.blindingFactor)
  THEN [err |-> "Round 2 commitment mismatch"]
  ELSE
    LET v == commitmentSchnorrVerify(payload.coefficientCommitments[1], payload.zkProof,
                                     DkgContext(state.ceremonyId, payload.partyIndex))
    IN  IF v = "throws" THEN [err |-> "invalid scalar"]
        ELSE IF v = "invalid" THEN [err |-> "Schnorr ZK proof invalid"]
        ELSE [err |-> "",
              state |-> [state EXCEPT !.round2Received =
                           MapSet(@, payload.fromNodeId,
                                  [coefficientCommitments |-> payload.coefficientCommitments,
                                   zkProof |-> payload.zkProof,
                                   blindingFactor |-> payload.blindingFactor])]]

isRound2Complete(state) == MapSize(state.round2Received) = state.totalParties - 1

\* ---- DKG Round 3 ----
\* RSA-OAEP: only the holder of the recipient's key decrypts.
encryptShare(shareHex, recipient) == [recipient |-> recipient, plaintext |-> shareHex]

executeRound3(state, peerPubkeys) ==
  IF state.secretPolynomial = <<>>
  THEN [err |-> "Round 2 must be completed before Round 3"]
  ELSE
    LET others == SelectSeq(state.participants,
                            LAMBDA p : p.partyIndex # state.myPartyIndex)
    IN  IF \E i \in DOMAIN others : others[i].nodeId \notin peerPubkeys
        THEN [err |-> "No public key available for peer"]
        ELSE [err |-> "",
              messages |->
                [i \in DOMAIN others |->
                   Msg(others[i].nodeId, "DKG_ROUND3_P2P",
                       [ceremonyId |-> state.ceremonyId,
                        fromNodeId |-> DkgMyNodeId(state),
                        toNodeId |-> others[i].nodeId,
                        fromPartyIndex |-> state.myPartyIndex,
                        toPartyIndex |-> others[i].partyIndex,
                        encryptedShare |->
                          encryptShare(evaluatePolynomial(state.secretPolynomial,
                                                          others[i].partyIndex),
                                       others[i].nodeId)])]]

\* me: the holder of myPrivateKeyPem.
\* Variant: the share is recorded without the Feldman verification.
dkgRecordRound3Unverified(state, payload, me) ==
  IF payload.encryptedShare.recipient # me THEN [err |-> "oaep decoding error"]
  ELSE IF ~MapHas(state.round2Received, payload.fromNodeId)
  THEN [err |-> "No Round 2 data for sender"]
  ELSE [err |-> "",
        state |-> [state EXCEPT !.status = "round3",
                                !.sharesReceived =
                                   MapSet(@, payload.fromNodeId,
                                          payload.encryptedShare.plaintext)]]

dkgRecordRound3(state, payload, me) ==
  IF payload.encryptedShare.recipient # me THEN [err |-> "oaep decoding error"]
  ELSE IF ~MapHas(state.round2Received, payload.fromNodeId)
  THEN [err |-> "No Round 2 data for sender"]
  ELSE
    LET shareValue == payload.encryptedShare.plaintext
        v == verifyFeldmanShare(shareValue, state.myPartyIndex,
               state.round2Received[payload.fromNodeId].coefficientCommitments)
    IN  IF v = "throws" THEN [err |-> "invalid scalar"]
        ELSE IF v = "invalid" THEN [err |-> "Feldman VSS verification failed"]
        ELSE [err |-> "",
              state |-> [state EXCEPT !.status = "round3",
                                      !.sharesReceived =
                                         MapSet(@, payload.fromNodeId, shareValue)]]

isRound3Complete(state) == MapSize(state.sharesReceived) = state.totalParties - 1

\* ---- DKG Round 4 ----
\* Variant: the share of the node's own polynomial is left out.
sumOfSharesReceivedOnly(state) == SumFn(state.sharesReceived) % CURVE_ORDER

\* x_i = f_i(i) + sum of the f_j(i) received.
sumOfShares(state) ==
  (evaluatePolynomial(state.secretPolynomial, state.myPartyIndex)
     + SumFn(state.sharesReceived)) % CURVE_ORDER

executeRound4(state) ==
  IF state.secretPolynomial = <<>> THEN [err |-> "Round 3 not complete"]
  ELSE
    LET keyShare == sumOfShares(state)
    IN  IF scalarMulG(keyShare) = -1 THEN [err |-> "invalid scalar"]
        ELSE [err |-> "",
              updatedState |-> [state EXCEPT !.status = "round4", !.myKeyShare = keyShare],
              broadcast |->
                [ceremonyId |-> state.ceremonyId,
                 fromNodeId |-> DkgMyNodeId(state),
                 partyIndex |-> state.myPartyIndex,
                 publicKeyShare |-> scalarMulG(keyShare),
                 shareVerified |-> TRUE]]

dkgRecordRound4(state, payload) ==
  IF ~payload.shareVerified THEN [err |-> "reported share verification failure"]
  ELSE [err |-> "",
        state |-> [state EXCEPT !.publicKeySharesReceived =
                     MapSet(@, payload.fromNodeId, payload.publicKeyShare)]]

isRound4Complete(state) == MapSize(state.publicKeySharesReceived) = state.totalParties - 1

\* The intercepts of the round2Received entries, in the order of the node ids.
InterceptsReceived(state) ==
  LET ids == SeqOfSet(DOMAIN state.round2Received)
  IN  [i \in DOMAIN ids |-> state.round2Received[ids[i]].coefficientCommitments[1]]

\* Variant: the node's own intercept is left out.
interceptCommitmentsOfPeersOnly(state) == InterceptsReceived(state)

\* interceptCommitments: the node's own intercept, then the peers'.
interceptCommitments(state) ==
  <<state.myCoeffCommitments[1]>> \o InterceptsReceived(state)

assemblePkMaster(state) ==
  IF state.myCoeffCommitments = <<>> THEN [err |-> "Missing my coefficient commitments"]
  ELSE
    LET r == combinePkMaster(interceptCommitments(state))
    IN  IF r.err # "" THEN r
        ELSE [err |-> "",
              updatedState |-> [state EXCEPT !.status = "complete",
                                             !.pkMaster = r.pkMaster,
                                             !.chainCode = dkgChainCode(r.pkMaster)],
              complete |-> [ceremonyId |-> state.ceremonyId,
                            pkMaster |-> r.pkMaster,
                            chainCode |-> dkgChainCode(r.pkMaster)]]

\* =========================================================================
\* The DKG coordinator.  timers holds the callbacks setTimeout registered:
\* timeoutHandle is the index of the one the coordinator can still clear.
DkgThreshold == 2

\* opts.totalParties: the ceremony is configured for the whole cluster.
DkgTotalParties == Cardinality(Nodes)

InitDkgCoordinator(n) ==
  [state |-> NoDkgState,
   acceptedParticipants |-> EmptyMap,
   peerPubkeys |-> Nodes \ {n},
   ceremonyId |-> 0,
   timeoutHandle |-> 0,
   timers |-> <<>>,
   keyShareStore |-> <<>>]

HasDkgState(d) == d.state.ceremonyId # 0

DkgAbortedEvent(reason) == [event |-> "aborted", reason |-> reason]

DkgCompleteEvent(complete) ==
  [event |-> "complete", reason |-> "",
   pkMaster |-> complete.pkMaster, chainCode |-> complete.chainCode]

dkgStartTimeout(d, clock) ==
  [d EXCEPT !.timers = Append(@, [due |-> clock + TimeoutMs, pending |-> TRUE]),
            !.timeoutHandle = Len(d.timers) + 1]

dkgClearTimeout(d) ==
  IF d.timeoutHandle = 0 THEN d
  ELSE [d EXCEPT !.timers[d.timeoutHandle].pending = FALSE, !.timeoutHandle = 0]

dkgAbort(n, d, reason) ==
  LET d1 == dkgClearTimeout(d)
  IN  Res([d1 EXCEPT !.state = NoDkgState],
          IF HasDkgState(d1)
          THEN Broadcast(n, "DKG_ABORT",
                         [ceremonyId |-> d1.state.ceremonyId, reason |-> reason,
                          fromNodeId |-> n])
          ELSE <<>>,
          <<DkgAbortedEvent(reason)>>, {})

\* peers: getConnectedNodeIds().
dkgInitiate(n, d, peers, ceremonyId, clock) ==
  LET participants == <<n>> \o SubSeq(peers, 1, DkgTotalParties - 1)
      d1 == [d EXCEPT !.ceremonyId = ceremonyId]
  IN  Res(dkgStartTimeout(d1, clock),
          Broadcast(n, "DKG_PROPOSE",
                    [ceremonyId |-> ceremonyId,
                     initiatorNodeId |-> n,
                     participants |-> participants,
                     threshold |-> DkgThreshold,
                     totalParties |-> DkgTotalParties,
                     deadline |-> clock + TimeoutMs]),
          <<>>, {})

dkgStartRound1(n, d, rnd) ==
  IF ~HasDkgState(d) THEN Stay(d)
  ELSE LET r == executeRound1(d.state, rnd)
       IN  IF r.err # "" THEN dkgAbort(n, d, r.err)
           ELSE Res([d EXCEPT !.state = r.updatedState],
                    Broadcast(n, "DKG_ROUND1", r.broadcast), <<>>, {})

dkgStartRound2(n, d, rnd) ==
  IF ~HasDkgState(d) THEN Stay(d)
  ELSE LET r == executeRound2(d.state, rnd)
       IN  IF r.err # "" THEN dkgAbort(n, d, r.err)
           ELSE Res([d EXCEPT !.state = r.updatedState],
                    Broadcast(n, "DKG_ROUND2", r.broadcast), <<>>, {})

dkgStartRound3(n, d) ==
  IF ~HasDkgState(d) THEN Stay(d)
  ELSE LET r == executeRound3(d.state, d.peerPubkeys)
       IN  IF r.err # "" THEN dkgAbort(n, d, r.err)
           ELSE Res([d EXCEPT !.state.status = "round3"], r.messages, <<>>, {})

dkgStartRound4(n, d) ==
  IF ~HasDkgState(d) THEN Stay(d)
  ELSE LET r == executeRound4(d.state)
       IN  IF r.err # "" THEN dkgAbort(n, d, r.err)
           ELSE Res([d EXCEPT !.state = r.updatedState],
                    Broadcast(n, "DKG_ROUND4", r.broadcast), <<>>, {})

IndexOf(seq, x) ==
  IF \E i \in DOMAIN seq : seq[i] = x
  THEN CHOOSE i \in DOMAIN seq : seq[i] = x /\ \A j \in 1 .. (i - 1) : seq[j] # x
  ELSE 0

dkgOnPropose(n, d, payload, rnd, clock) ==
  IF HasDkgState(d) THEN Stay(d)
  ELSE
    LET myIndex == IndexOf(payload.participants, n)
    IN  IF myIndex = 0 THEN Stay(d)
        ELSE
          LET participants == [i \in DOMAIN payload.participants |->
                                 [nodeId |-> payload.participants[i], partyIndex |-> i]]
              d1 == [d EXCEPT !.ceremonyId = payload.ceremonyId,
                              !.state = createInitialDkgState(payload.ceremonyId, myIndex,
                                          participants, payload.threshold,
                                          payload.totalParties)]
              d2 == dkgStartTimeout(d1, clock)
              accepted == Res(d2, <<Msg(payload.initiatorNodeId, "DKG_ACCEPT",
                                        [ceremonyId |-> payload.ceremonyId,
                                         nodeId |-> n,
                                         partyIndex |-> myIndex])>>, <<>>, {})
          IN  AndThen(accepted, dkgStartRound1(n, d2, rnd))

dkgOnAccept(n, d, fromNodeId, payload, rnd) ==
  IF d.ceremonyId = 0 \/ payload.ceremonyId # d.ceremonyId THEN Stay(d)
  ELSE
    LET d1 == [d EXCEPT !.acceptedParticipants = MapSet(@, fromNodeId, payload)]
    IN  IF MapSize(d1.acceptedParticipants) >= DkgTotalParties - 1 /\ ~HasDkgState(d1)
        THEN
          LET ids == SeqOfSet(DOMAIN d1.acceptedParticipants)
              allParticipants ==
                <<[nodeId |-> n, partyIndex |-> 1]>>
                \o [i \in DOMAIN ids |->
                      [nodeId |-> d1.acceptedParticipants[ids[i]].nodeId,
                       partyIndex |-> d1.acceptedParticipants[ids[i]].partyIndex]]
              d2 == [d1 EXCEPT !.state = createInitialDkgState(d1.ceremonyId, 1,
                                           allParticipants, DkgThreshold, DkgTotalParties)]
          IN  dkgStartRound1(n, d2, rnd)
        ELSE Stay(d1)

\* The continuation of finalize() suspended at keyShareStore.save().
TaskDkgFinalize(complete, shareData) ==
  [kind |-> "dkgFinalize", complete |-> complete, shareData |-> shareData]

dkgFinalize(n, d) ==
  IF ~HasDkgState(d) THEN Stay(d)
  ELSE
    LET r == assemblePkMaster(d.state)
    IN  IF r.err # "" THEN dkgAbort(n, d, r.err)
        ELSE
          LET s == r.updatedState
              shareData ==
                [partyIndex |-> s.myPartyIndex,
                 secretShare |-> s.myKeyShare,
                 publicKeyShares |-> <<s.myCoeffCommitments[1]>> \o InterceptsReceived(s),
                 pkMaster |-> r.complete.pkMaster,
                 chainCode |-> r.complete.chainCode,
                 ceremonyId |-> s.ceremonyId]
          IN  Res([d EXCEPT !.state = s], <<>>, <<>>,
                  {TaskDkgFinalize(r.complete, shareData)})

\* After the await: the share is on disk.
dkgFinalizeResume(n, d, task) ==
  Res(dkgClearTimeout([d EXCEPT !.keyShareStore = Append(@, task.shareData)]),
      Broadcast(n, "DKG_COMPLETE", task.complete),
      <<DkgCompleteEvent(task.complete)>>, {})

DkgCeremonyOf(d, payload) == HasDkgState(d) /\ payload.ceremonyId = d.state.ceremonyId

dkgOnRound1(n, d, fromNodeId, payload, rnd) ==
  IF ~DkgCeremonyOf(d, payload) THEN Stay(d)
  ELSE LET r == dkgRecordRound1(d.state, payload)
           d1 == [d EXCEPT !.state = r.state]
       IN  IF isRound1Complete(d1.state) THEN dkgStartRound2(n, d1, rnd) ELSE Stay(d1)

dkgOnRound2(n, d, fromNodeId, payload) ==
  IF ~DkgCeremonyOf(d, payload) THEN Stay(d)
  ELSE LET r == dkgRecordRound2(d.state, payload)
       IN  IF r.err # "" THEN dkgAbort(n, d, r.err)
           ELSE LET d1 == [d EXCEPT !.state = r.state]
                IN  IF isRound2Complete(d1.state) THEN dkgStartRound3(n, d1) ELSE Stay(d1)

dkgOnRound3(n, d, payload) ==
  IF ~DkgCeremonyOf(d, payload) THEN Stay(d)
  ELSE IF payload.toNodeId # n THEN Stay(d)
  ELSE LET r == dkgRecordRound3(d.state, payload, n)
       IN  IF r.err # "" THEN dkgAbort(n, d, r.err)
           ELSE LET d1 == [d EXCEPT !.state = r.state]
                IN  IF isRound3Complete(d1.state) THEN dkgStartRound4(n, d1) ELSE Stay(d1)

\* A faulty variant: the rejection of save() is swallowed.
dkgFinalizeSaveIgnored(n, d, task) ==
  Res(dkgClearTimeout(d), Broadcast(n, "DKG_COMPLETE", task.complete),
      <<DkgCompleteEvent(task.complete)>>, {})

\* keyShareStore.save() rejects: the error leaves finalize() and the handler
\* that awaited it, and handleMessage's catch aborts with its message.
dkgFinalizeSaveFails(n, d, task) == dkgAbort(n, d, "No encryption backend configured")

dkgOnRound4(n, d, fromNodeId, payload) ==
  IF ~DkgCeremonyOf(d, payload) THEN Stay(d)
  ELSE LET r == dkgRecordRound4(d.state, payload)
       IN  IF r.err # "" THEN dkgAbort(n, d, r.err)
           ELSE LET d1 == [d EXCEPT !.state = r.state]
                IN  IF isRound4Complete(d1.state) THEN dkgFinalize(n, d1) ELSE Stay(d1)

dkgHandleMessage(n, d, fromNodeId, msg, rnd, clock) ==
  CASE msg.type = "DKG_PROPOSE" -> dkgOnPropose(n, d, msg.payload, rnd, clock)
    [] msg.type = "DKG_ACCEPT" -> dkgOnAccept(n, d, fromNodeId, msg.payload, rnd)
    [] msg.type = "DKG_ROUND1" -> dkgOnRound1(n, d, fromNodeId, msg.payload, rnd)
    [] msg.type = "DKG_ROUND2" -> dkgOnRound2(n, d, fromNodeId, msg.payload)
    [] msg.type = "DKG_ROUND3_P2P" -> dkgOnRound3(n, d, msg.payload)
    [] msg.type = "DKG_ROUND4" -> dkgOnRound4(n, d, fromNodeId, msg.payload)
    [] msg.type = "DKG_COMPLETE" -> Stay(d)
    [] msg.type = "DKG_ABORT" -> dkgAbort(n, d, msg.payload.reason)
    [] OTHER -> Stay(d)

\* =========================================================================
\* The state machine.
\* ---- Inputs and random draws ----
\* Signing requests the operator makes: one transfer, address index 5.
RawTxs == {[to |-> TRUE, body |-> 4]}

DerivationPaths == {5}

\* generateScalar() draws of k_i and gamma_i.
KiSamples == {1, 3, 5, 6}

GammaSamples == {1, 2, 3}

\* The primes of generatePaillierKey and the unit of paillierEncrypt.
PrimePairs == {<<5, 13>>}

EncUnits == {2}

\* Nonces of schnorrProve.
ProofNonces == {1}

\* Blinding scalars of the MtA.
BetaSamples == {1, 4}

\* The draws in the specifications with faults.
FewKiSamples == {1, 3}

FewGammaSamples == {2}

FewBetaSamples == {1}

\* Draws of gamma_i that can add up to 0 mod n.
OpposedGammaSamples == {2, 5}

\* The draws a specification lets the generators make.
Round1Draws ==
  [ki : budget.kis, gammaI : budget.gammas,
   p : {pq[1] : pq \in PrimePairs}, q : {pq[2] : pq \in PrimePairs},
   encR : EncUnits, kGamma : ProofNonces, kKi : ProofNonces]

Round2Draws == [betaD : budget.betas, betaS : budget.betas, rD : EncUnits, rS : EncUnits]

NoDraw == [betaD |-> 0, betaS |-> 0, rD |-> 0, rS |-> 0]

\* A SIGN_COMPLETE payload a peer can craft: a signature that is not valid
\* for any key (no point has x-coordinate 1 in the model's group).
CraftedSignatures == {[r |-> 1, s |-> 1, v |-> 27]}

\* ---- Bounds ----
\* Sign requests of the operator in the specification with retries.
MaxSessions == 2

\* Clock ticks.
MaxClock == 1

\* Messages the network delivers twice.
MaxReplays == 1

\* Crafted messages a peer sends.
MaxCrafted == 1

\* Messages that overtake the one sent before them.
MaxReorders == 1

\* Share holders of a Shamir sharing.
MaxParties == 4

FewDraws(b) ==
  [b EXCEPT !.kis = FewKiSamples, !.gammas = IF b.gammas = GammaSamples THEN FewGammaSamples ELSE b.gammas,
             !.betas = FewBetaSamples]

NoBudget ==
  [nodes |-> {1, 2}, sessions |-> 1, ticks |-> 0, replays |-> 0, crafted |-> 0,
   kis |-> KiSamples, gammas |-> GammaSamples, betas |-> BetaSamples,
   secrets |-> {1, 2}, reorders |-> 0, threshold |-> 2]

\* ---- Applying a handler's outcome ----
RECURSIVE Enqueue(_, _, _)
Enqueue(ch, n, out) ==
  IF out = <<>> THEN ch
  ELSE Enqueue([ch EXCEPT ![<<n, Head(out).to>>] =
                  Append(@, [type |-> Head(out).type, payload |-> Head(out).payload])],
               n, Tail(out))

\* done: the continuation that ran, if the step resumed one.  The handler's
\* outcome is computed once.
Apply(n, outcome, done, ch) ==
  \E res \in {outcome} :
    /\ coord' = [coord EXCEPT ![n] = res.c]
    /\ tasks' = [tasks EXCEPT ![n] = (@ \ done) \cup res.spawn]
    /\ emitted' = [emitted EXCEPT ![n] = @ \o res.ev]
    /\ sent' = [sent EXCEPT ![n] = @ \o res.out]
    /\ chan' = Enqueue(ch, n, res.out)
    /\ raced' =
         IF /\ \E t \in tasks[n] : t.kind = "startRound1"
            /\ HasSession(coord[n]) /\ HasSession(res.c)
            /\ MapSize(res.c.session.round1Received)
                 > MapSize(coord[n].session.round1Received)
         THEN raced \cup {<<n, res.c.session.sessionId>>}
         ELSE raced
    /\ turn' = 1 - turn
    /\ UNCHANGED <<dkg, call, net>>

\* No library function is under evaluation.
NoCall == [fn |-> ""]

\* No NodeServer is started.
NoNet == [links |-> {}]

InitCluster(b) ==
  /\ budget = b
  /\ coord = [n \in NodeIds |-> InitCoordinator]
  /\ dkg = [n \in NodeIds |-> InitDkgCoordinator(n)]
  /\ tasks = [n \in NodeIds |-> {}]
  /\ chan = [pr \in NodeIds \X NodeIds |-> <<>>]
  /\ emitted = [n \in NodeIds |-> <<>>]
  /\ sent = [n \in NodeIds |-> <<>>]
  /\ now = 0
  /\ uuids = 0
  /\ raced = {}
  /\ turn = 0

InitWith(b) == InitCluster(b) /\ call = NoCall /\ net = NoNet

Init == InitWith(NoBudget)

\* The operator asks a node to sign: a first request, or a retry after the
\* node reported 'aborted'.
Idle(n) ==
  /\ ~HasSession(coord[n])
  /\ ~coord[n].sessionPending
  /\ ~coord[n].timeoutHandle.armed
  /\ tasks[n] = {}
  /\ emitted[n] # <<>> => emitted[n][Len(emitted[n])].event = "aborted"

Initiators == {1}

InitiateWith(n, txHashes(_)) ==
  /\ n \in Initiators
  /\ Idle(n)
  /\ budget.sessions > 0
  /\ \E rawTx \in RawTxs, path \in DerivationPaths :
       \E txHash \in txHashes(rawTx) :
         Apply(n, initiate(coord[n], rawTx, path, txHash), {}, chan)
  /\ budget' = [budget EXCEPT !.sessions = @ - 1]
  /\ UNCHANGED <<now, uuids>>

\* The CLI passes the signing hash it computed from the transaction.
HonestHash(rawTx) == {computeSigningHash(rawTx)}

Initiate(n) == InitiateWith(n, HonestHash)

\* A compromised initiator passes another hash.
ForgedHash(rawTx) == (1 .. (CURVE_ORDER - 1)) \ {computeSigningHash(rawTx)}

InitiateForged(n) == InitiateWith(n, ForgedHash)

ResumeInitiate(n) ==
  \E t \in tasks[n] :
    /\ t.kind = "initiate"
    /\ Apply(n, initiateResume(n, coord[n], t, uuids + 1, now), {t}, chan)
    /\ uuids' = uuids + 1
    /\ UNCHANGED <<now, budget>>

ResumeRequest(n) ==
  \E t \in tasks[n] :
    /\ t.kind = "onRequest"
    /\ Apply(n, onRequestResume(n, coord[n], t, now), {t}, chan)
    /\ UNCHANGED <<now, uuids, budget>>

ResumeRound1(n) ==
  \E t \in tasks[n] :
    /\ t.kind = "startRound1"
    /\ \E d1 \in Round1Draws, d2 \in Round2Draws :
         Apply(n, startRound1Resume(n, coord[n], t, d1 @@ d2), {t}, chan)
    /\ UNCHANGED <<now, uuids, budget>>

ResumeFinalize(n) ==
  \E t \in tasks[n] :
    /\ t.kind = "finalize"
    /\ Apply(n, finalizeResume(n, coord[n], t), {t}, chan)
    /\ UNCHANGED <<now, uuids, budget>>

\* The node server hands the oldest message from a to b to b's coordinator.
Deliver(a, b) ==
  /\ chan[<<a, b>>] # <<>>
  /\ LET msg == Head(chan[<<a, b>>])
     IN  \E d2 \in (IF msg.type = "SIGN_ROUND1" THEN Round2Draws ELSE {NoDraw}) :
           Apply(b, handleMessage(b, coord[b], a, msg, d2, now), {},
                 [chan EXCEPT ![<<a, b>>] = Tail(@)])
  /\ UNCHANGED <<now, uuids, budget>>

\* ---- Environment faults ----
Tick ==
  /\ budget.ticks > 0
  /\ now' = now + 1
  /\ budget' = [budget EXCEPT !.ticks = @ - 1]
  /\ turn' = 1 - turn
  /\ UNCHANGED <<coord, dkg, tasks, chan, emitted, sent, uuids, raced, call, net>>

\* The setTimeout callback of startTimeout.
Timeout(n) ==
  /\ coord[n].timeoutHandle.armed
  /\ now >= coord[n].timeoutHandle.due
  /\ Apply(n, abort(coord[n], "Signing session timed out"), {}, chan)
  /\ UNCHANGED <<now, uuids, budget>>

RoundTypes == {"SIGN_ROUND1", "SIGN_ROUND2", "SIGN_ROUND3", "SIGN_ROUND4"}

\* A round message a sent to b reaches b a second time.
Duplicate(a, b) ==
  /\ budget.replays > 0
  /\ \E i \in DOMAIN sent[a] :
       /\ sent[a][i].to = b
       /\ sent[a][i].type \in RoundTypes
       /\ chan' = [chan EXCEPT ![<<a, b>>] =
                     Append(@, [type |-> sent[a][i].type, payload |-> sent[a][i].payload])]
  /\ budget' = [budget EXCEPT !.replays = @ - 1]
  /\ turn' = 1 - turn
  /\ UNCHANGED <<coord, dkg, tasks, emitted, sent, now, uuids, raced, call, net>>

\* A peer outside the signer set (node id 0) sends n a crafted SIGN_COMPLETE
\* for a session id it saw in a SIGN_REQUEST broadcast.
CraftComplete(n) ==
  /\ budget.crafted > 0
  /\ \E sid \in 1 .. uuids, sig \in CraftedSignatures :
       Apply(n, handleMessage(n, coord[n], 0,
                  [type |-> "SIGN_COMPLETE",
                   payload |-> [sessionId |-> sid, signature |-> sig,
                                signedTxHex |-> <<0, sig.r, sig.s, sig.v - 27>>]],
                  NoDraw, now), {}, chan)
  /\ budget' = [budget EXCEPT !.crafted = @ - 1]
  /\ UNCHANGED <<now, uuids>>

\* The network hands b the second message a sent before the first.
Overtake(a, b) ==
  /\ budget.reorders > 0
  /\ Len(chan[<<a, b>>]) >= 2
  /\ chan' = [chan EXCEPT ![<<a, b>>] = <<@[2], @[1]>> \o Tail(Tail(@))]
  /\ budget' = [budget EXCEPT !.reorders = @ - 1]
  /\ turn' = 1 - turn
  /\ UNCHANGED <<coord, dkg, tasks, emitted, sent, now, uuids, raced, call, net>>

\* The moduli a misbehaving signer announces in Round 1: an even one, one
\* below the bound, a multiple of the curve order, a square, and a well-formed
\* one that is not the modulus of its key.
AnnouncedModuli == {66, 15, 77, 81, 85}

\* Signer a announces another Paillier modulus in the Round 1 message it
\* sends to b.
TamperModulus(a, b) ==
  /\ budget.crafted > 0
  /\ \E i \in DOMAIN chan[<<a, b>>], N \in AnnouncedModuli :
       /\ chan[<<a, b>>][i].type = "SIGN_ROUND1"
       /\ chan' = [chan EXCEPT ![<<a, b>>][i].payload.paillierN = N]
  /\ budget' = [budget EXCEPT !.crafted = @ - 1]
  /\ turn' = 1 - turn
  /\ UNCHANGED <<coord, dkg, tasks, emitted, sent, now, uuids, raced, call, net>>

\* Signer a sends b another delta share in its Round 3 message.
TamperDelta(a, b) ==
  /\ budget.crafted > 0
  /\ \E i \in DOMAIN chan[<<a, b>>], d \in 0 .. CURVE_ORDER - 1 :
       /\ chan[<<a, b>>][i].type = "SIGN_ROUND3"
       /\ chan[<<a, b>>][i].payload.deltaShare # d
       /\ chan' = [chan EXCEPT ![<<a, b>>][i].payload.deltaShare = d]
  /\ budget' = [budget EXCEPT !.crafted = @ - 1]
  /\ turn' = 1 - turn
  /\ UNCHANGED <<coord, dkg, tasks, emitted, sent, now, uuids, raced, call, net>>

\* ---- Library functions evaluated on drawn arguments ----
\* The other variables of a specification that evaluates a library function.
ClusterUnchanged ==
  UNCHANGED <<coord, dkg, tasks, chan, emitted, sent, now, uuids, raced, budget, turn>>

\* The thresholds, the polynomials and the orders in which a caller can
\* enter t of the share holders' indices into the Map.
ShamirThresholds == {2, 3}

Polynomials(t) == [1 .. t -> 0 .. CURVE_ORDER - 1]

IndexOrders(t) ==
  {q \in [1 .. t -> 1 .. MaxParties] : \A i, j \in 1 .. t : q[i] = q[j] => i = j}

ReconstructCalls ==
  {[fn |-> "reconstructSecret", coefficients |-> f, indices |-> q,
    shares |-> [i \in DOMAIN q |-> <<q[i], evaluatePolynomial(f, q[i])>>],
    returned |-> FALSE, result |-> -1] :
     f \in UNION {Polynomials(t) : t \in ShamirThresholds},
     q \in UNION {IndexOrders(t) : t \in ShamirThresholds}}

ReturnReconstructSecret ==
  /\ call.fn = "reconstructSecret"
  /\ ~call.returned
  /\ call' = [call EXCEPT !.returned = TRUE, !.result = reconstructSecret(call.shares)]
  /\ ClusterUnchanged
  /\ UNCHANGED net

\* The primes generatePrime(3) can resolve to: odd, top bit set.
ThreeBitPrimes == {5, 7}

\* Plaintexts, multipliers and masks below N, and the values the draw loop
\* of paillierEncrypt can leave in r: anything in 1 .. N - 1.
PlainSamples(N) == {0, 1, 2, N \div 2, N - 2, N - 1}

RandomnessSamples(N) == {1, 2, 5, 7, 10, N - 1}

MtACalls ==
  {[fn |-> "paillierMtA", p |-> pq[1], q |-> pq[2], a |-> abm[1], b |-> abm[2],
    beta |-> abm[3], r |-> rr[1], rBlind |-> rr[2], returned |-> FALSE, result |-> -1] :
     pq \in {x \in ThreeBitPrimes \X ThreeBitPrimes : x[1] # x[2]},
     abm \in PlainSamples(35) \X PlainSamples(35) \X PlainSamples(35),
     rr \in RandomnessSamples(35) \X RandomnessSamples(35)}

\* generatePaillierKey, paillierEncrypt, paillierMtA and paillierDecrypt in
\* a row.
ReturnMtA ==
  /\ call.fn = "paillierMtA"
  /\ ~call.returned
  /\ LET key == generatePaillierKey(call.p, call.q)
         c == paillierEncrypt(key.n, call.a, call.r)
         m == paillierMtA(key.n, c, call.b, call.beta, call.rBlind)
     IN  call' = [call EXCEPT !.returned = TRUE, !.result = paillierDecrypt(key, m)]
  /\ ClusterUnchanged
  /\ UNCHANGED net

\* ---- NodeServer ----
\* seenMessageIds is emptied when it grows beyond this size.
SeenLimit == 50000

\* Payloads the coordinators broadcast in the NodeServer specification.
MaxBroadcasts == 2

DkgMessageTypes ==
  {"DKG_PROPOSE", "DKG_ACCEPT", "DKG_ROUND1", "DKG_ROUND2", "DKG_ROUND3_P2P", "DKG_ROUND4",
   "DKG_COMPLETE", "DKG_ABORT"}

\* The signing types of the MessageType enum.
SignMessageTypes ==
  {"SIGN_REQUEST", "SIGN_ACCEPT", "SIGN_REJECT", "SIGN_ROUND1", "SIGN_ROUND2",
   "SIGN_ROUND3", "SIGN_COMPLETE", "SIGN_ABORT", "SIGN_ROUND4"}

\* uuidv4() for the next message: ids are never repeated.
createMessage(id, type, payload) == [id |-> id, type |-> type, payload |-> payload]

\* <<d, l>> in net.links: node d dialled node l, an outbound connection of d
\* and an inbound one of l.  net.wire[<<a, b, "out">>] holds the frames a sent
\* to b on the connection a dialled, net.wire[<<a, b, "in">>] those a sent on
\* the connection b dialled.
StartedNet(links) ==
  [links |-> links,
   ids |-> 0,
   broadcast |-> {},
   wire |-> [k \in NodeIds \X NodeIds \X {"out", "in"} |-> <<>>],
   seen |-> [n \in NodeIds |-> {}],
   handed |-> [n \in NodeIds |-> <<>>]]

\* TlsServer.broadcast: one message for all inbound peers.
tlsServerBroadcast(n, a, type, payload) ==
  LET msg == createMessage(n.ids + 1, type, payload)
      peers == {b \in NodeIds : <<b, a>> \in n.links}
  IN  [n EXCEPT !.ids = @ + 1,
                !.wire = [k \in DOMAIN @ |->
                            IF k[1] = a /\ k[2] \in peers /\ k[3] = "in"
                            THEN Append(@[k], msg) ELSE @[k]]]

\* PeerManager.broadcast: conn.send() creates a message per connection.
RECURSIVE peerManagerBroadcast(_, _, _, _, _)
peerManagerBroadcast(n, a, peers, type, payload) ==
  IF peers = <<>> THEN n
  ELSE peerManagerBroadcast(
         [n EXCEPT !.ids = @ + 1,
                   !.wire[<<a, Head(peers), "out">>] =
                      Append(@, createMessage(n.ids + 1, type, payload))],
         a, Tail(peers), type, payload)

nodeServerBroadcast(n, a, type, payload) ==
  peerManagerBroadcast(tlsServerBroadcast(n, a, type, payload), a,
                       SeqOfSet({b \in NodeIds : <<a, b>> \in n.links}), type, payload)

\* A faulty variant: every signing type of the enum is forwarded.
nodeServerListenerOfAllSignTypes(type) ==
  IF type \in DkgMessageTypes THEN "dkgMessage"
  ELSE IF type \in SignMessageTypes THEN "signMessage"
  ELSE ""

\* The switch of NodeServer.handleMessage: the event a type is emitted as.
nodeServerListenerOf(type) ==
  IF type \in DkgMessageTypes THEN "dkgMessage"
  ELSE IF type \in {"SIGN_REQUEST", "SIGN_ACCEPT", "SIGN_REJECT", "SIGN_ROUND1",
                    "SIGN_ROUND2", "SIGN_ROUND3", "SIGN_COMPLETE", "SIGN_ABORT"}
  THEN "signMessage"
  ELSE ""

nodeServerHandleMessage(n, b, nodeId, msg) ==
  IF msg.id \in n.seen[b] THEN n
  ELSE
    LET added == n.seen[b] \cup {msg.id}
        seen == IF Cardinality(added) > SeenLimit THEN {} ELSE added
        event == nodeServerListenerOf(msg.type)
    IN  [n EXCEPT !.seen[b] = seen,
                  !.handed[b] =
                     IF event = "" THEN @
                     ELSE Append(@, [event |-> event, nodeId |-> nodeId,
                                     type |-> msg.type, payload |-> msg.payload])]

\* The types the specification broadcasts: every signing type, a DKG type
\* and a type of the transport.
BroadcastTypes == SignMessageTypes \cup {"DKG_ROUND1", "HEARTBEAT"}

\* A coordinator of node a broadcasts a payload it has not broadcast before.
NodeBroadcast(a) ==
  /\ net.links # {}
  /\ Cardinality(net.broadcast) < MaxBroadcasts
  /\ \E type \in BroadcastTypes :
       LET payload == Cardinality(net.broadcast) + 1
       IN  net' = [nodeServerBroadcast(net, a, type, payload)
                     EXCEPT !.broadcast = @ \cup {payload}]
  /\ ClusterUnchanged
  /\ UNCHANGED call

\* The next frame a sent to b on one of the two connections reaches b's
\* NodeServer.
NodeReceive(a, b) ==
  /\ net.links # {}
  /\ \E dir \in {"out", "in"} :
       /\ net.wire[<<a, b, dir>>] # <<>>
       /\ net' = nodeServerHandleMessage(
                    [net EXCEPT !.wire[<<a, b, dir>>] = Tail(@)], b, a,
                    Head(net.wire[<<a, b, dir>>]))
  /\ ClusterUnchanged
  /\ UNCHANGED call

\* ---- Specifications ----
NextHonest ==
  \E n \in NodeIds :
    \/ Initiate(n)
    \/ ResumeInitiate(n)
    \/ ResumeRequest(n)
    \/ ResumeRound1(n)
    \/ ResumeFinalize(n)
    \/ \E a \in NodeIds \ {n} : Deliver(a, n)

\* Honest nodes, in-order reliable delivery, no timer expiry, one request.
SpecHonest == Init /\ [][NextHonest]_vars

\* The same with a compromised initiator.
NextForged == NextHonest \/ \E n \in NodeIds : InitiateForged(n)

SpecForged == Init /\ [][NextForged]_vars

\* The same with a network that delivers round messages twice.
NextReplay == NextHonest \/ \E a, b \in NodeIds : a # b /\ Duplicate(a, b)

SpecReplay ==
  InitWith(FewDraws([NoBudget EXCEPT !.replays = MaxReplays])) /\ [][NextReplay]_vars

\* The same with a peer that crafts SIGN_COMPLETE messages.
NextCrafted == NextHonest \/ \E n \in NodeIds : CraftComplete(n)

SpecCrafted ==
  InitWith(FewDraws([NoBudget EXCEPT !.crafted = MaxCrafted])) /\ [][NextCrafted]_vars

\* The same with a network that does not keep the order of messages.
NextReordered ==
  \/ NextHonest
  \/ \E a \in NodeIds : \E b \in NodeIds \ {a} : Overtake(a, b)

SpecReordered ==
  InitWith(FewDraws([NoBudget EXCEPT !.reorders = MaxReorders])) /\ [][NextReordered]_vars

\* Three connected nodes that hold the shares of a ceremony with threshold 3.
SpecThresholdThree ==
  InitWith(FewDraws([NoBudget EXCEPT !.nodes = {1, 2, 3}, !.threshold = 3]))
  /\ [][NextHonest]_vars

\* Three connected nodes that hold the shares of a ceremony with threshold 2.
SpecThreeHolders ==
  InitWith([FewDraws(NoBudget) EXCEPT !.nodes = {1, 2, 3}, !.kis = {5}]) /\ [][NextHonest]_vars

\* reconstructSecret called with t shares of a polynomial of degree t - 1.
InitShamir ==
  /\ InitCluster(NoBudget)
  /\ net = NoNet
  /\ call \in {c \in ReconstructCalls : Len(c.coefficients) = Len(c.indices)}

NextShamir == ReturnReconstructSecret

SpecShamir == InitShamir /\ [][NextShamir]_vars

\* The MtA round trip on a freshly generated key.
InitPaillier == InitCluster(NoBudget) /\ net = NoNet /\ call \in MtACalls

NextPaillier == ReturnMtA

SpecPaillier == InitPaillier /\ [][NextPaillier]_vars

\* Two NodeServers: one dialled the other, or each dialled the other.
InitNodeServer ==
  /\ InitCluster(NoBudget)
  /\ call = NoCall
  /\ net \in {StartedNet(l) : l \in {{<<1, 2>>}, {<<2, 1>>}, {<<1, 2>>, <<2, 1>>}}}

NextNodeServer ==
  \/ \E a \in NodeIds : NodeBroadcast(a)
  \/ \E a \in NodeIds : \E b \in NodeIds \ {a} : NodeReceive(a, b)

SpecNodeServer == InitNodeServer /\ [][NextNodeServer]_vars

\* The same with a signer that announces a Paillier modulus of its choice.
NextModulus ==
  \/ NextHonest
  \/ \E a \in NodeIds : \E b \in NodeIds \ {a} : TamperModulus(a, b)

SpecModulus ==
  InitWith(FewDraws([NoBudget EXCEPT !.crafted = MaxCrafted])) /\ [][NextModulus]_vars

\* The same with a signer that sends a delta share of its choice.
NextDelta ==
  \/ NextHonest
  \/ \E a \in NodeIds : \E b \in NodeIds \ {a} : TamperDelta(a, b)

SpecDelta ==
  InitWith(FewDraws([NoBudget EXCEPT !.crafted = MaxCrafted, !.gammas = OpposedGammaSamples]))
  /\ [][NextDelta]_vars

\* The same with timers that expire and an operator who retries.
NextRetry == NextHonest \/ Tick \/ \E n \in NodeIds : Timeout(n)

SpecRetry ==
  InitWith(FewDraws([NoBudget EXCEPT !.sessions = MaxSessions, !.ticks = MaxClock]))
  /\ [][NextRetry]_vars

\* The same with a clock that passes the deadline of the session, timers that
\* expire and a peer that sends a SIGN_COMPLETE.
NextExpiry == NextRetry \/ \E n \in NodeIds : CraftComplete(n)

SpecExpiry ==
  InitWith(FewDraws([NoBudget EXCEPT !.ticks = TimeoutMs + 1, !.crafted = MaxCrafted]))
  /\ [][NextExpiry]_vars

\* ---- The DKG ceremony ----
\* The a_0 drawn in the ceremony of three nodes.
DkgSecrets == {4, 6}

DkgCoefficients == {3}

DkgBlindings == {1}

DkgDraws ==
  [secret : budget.secrets, coeffs : {<<c>> : c \in DkgCoefficients},
   blinding : DkgBlindings, k : ProofNonces]

NoDkgDraw == [secret |-> 0, coeffs |-> <<>>, blinding |-> 0, k |-> 0]

ApplyDkg(n, outcome, done, ch) ==
  \E res \in {outcome} :
    /\ dkg' = [dkg EXCEPT ![n] = res.c]
    /\ tasks' = [tasks EXCEPT ![n] = (@ \ done) \cup res.spawn]
    /\ emitted' = [emitted EXCEPT ![n] = @ \o res.ev]
    /\ sent' = [sent EXCEPT ![n] = @ \o res.out]
    /\ chan' = Enqueue(ch, n, res.out)
    /\ turn' = 1 - turn
    /\ UNCHANGED <<coord, raced, call, net>>

\* The operator starts a ceremony on a node whose peers are connected.
InitiateDkg(n) ==
  /\ n \in Initiators
  /\ budget.sessions > 0
  /\ ApplyDkg(n, dkgInitiate(n, dkg[n], SeqOfSet(Nodes \ {n}), uuids + 1, now), {}, chan)
  /\ uuids' = uuids + 1
  /\ budget' = [budget EXCEPT !.sessions = @ - 1]
  /\ UNCHANGED now

DkgTypes ==
  {"DKG_PROPOSE", "DKG_ACCEPT", "DKG_ROUND1", "DKG_ROUND2", "DKG_ROUND3_P2P",
   "DKG_ROUND4", "DKG_COMPLETE", "DKG_ABORT"}

\* The random values the handler of a message of this type can draw.
DkgDrawsFor(type) ==
  IF type \in {"DKG_PROPOSE", "DKG_ACCEPT"} THEN DkgDraws
  ELSE IF type = "DKG_ROUND1" THEN {[NoDkgDraw EXCEPT !.k = k] : k \in ProofNonces}
  ELSE {NoDkgDraw}

\* The node server hands the oldest message from a to b to b's DKG coordinator.
DeliverDkg(a, b) ==
  /\ chan[<<a, b>>] # <<>>
  /\ Head(chan[<<a, b>>]).type \in DkgTypes
  /\ \E rnd \in DkgDrawsFor(Head(chan[<<a, b>>]).type) :
       ApplyDkg(b, dkgHandleMessage(b, dkg[b], a, Head(chan[<<a, b>>]), rnd, now), {},
                [chan EXCEPT ![<<a, b>>] = Tail(@)])
  /\ UNCHANGED <<now, uuids, budget>>

ResumeDkgFinalize(n) ==
  \E t \in tasks[n] :
    /\ t.kind = "dkgFinalize"
    /\ ApplyDkg(n, dkgFinalizeResume(n, dkg[n], t), {t}, chan)
    /\ UNCHANGED <<now, uuids, budget>>

DkgRoundTypes == {"DKG_ROUND1", "DKG_ROUND2", "DKG_ROUND3_P2P", "DKG_ROUND4"}

\* What a second message of the sender can carry: the same payload again,
\* or, where the round has the receiver verify nothing, another value.
SecondPayloads(msg) ==
  {msg.payload}
  \cup (IF msg.type = "DKG_ROUND1"
        THEN {[msg.payload EXCEPT !.commitment = sha256(<<>>)]} ELSE {})
  \cup (IF msg.type = "DKG_ROUND4"
        THEN {[msg.payload EXCEPT !.publicKeyShare =
                 1 + (msg.payload.publicKeyShare % (CURVE_ORDER - 1))]} ELSE {})

\* a sends b a second message of a DKG round.
DuplicateDkg(a, b) ==
  /\ budget.replays > 0
  /\ \E i \in DOMAIN sent[a] :
       /\ sent[a][i].to = b
       /\ sent[a][i].type \in DkgRoundTypes
       /\ \E p \in SecondPayloads(sent[a][i]) :
            chan' = [chan EXCEPT ![<<a, b>>] = Append(@, [type |-> sent[a][i].type, payload |-> p])]
  /\ budget' = [budget EXCEPT !.replays = @ - 1]
  /\ turn' = 1 - turn
  /\ UNCHANGED <<coord, dkg, tasks, emitted, sent, now, uuids, raced, call, net>>

\* A setTimeout callback of startTimeout runs.
TimeoutDkg(n) ==
  /\ \E i \in DOMAIN dkg[n].timers :
       /\ dkg[n].timers[i].pending
       /\ now >= dkg[n].timers[i].due
       /\ ApplyDkg(n, dkgAbort(n, [dkg[n] EXCEPT !.timers[i].pending = FALSE],
                               "Ceremony timed out"), {}, chan)
  /\ UNCHANGED <<now, uuids, budget>>

NextDkg ==
  \E n \in NodeIds :
    \/ InitiateDkg(n)
    \/ ResumeDkgFinalize(n)
    \/ \E a \in NodeIds \ {n} : DeliverDkg(a, n) \/ DuplicateDkg(a, n)

\* A ceremony of honest nodes in which a round message can arrive twice.
SpecDkg == InitWith([NoBudget EXCEPT !.replays = MaxReplays]) /\ [][NextDkg]_vars

\* A ceremony of three honest nodes: in-order reliable delivery between each
\* pair of nodes, no timer expiry.
FailDkgSave(n) ==
  \E t \in tasks[n] :
    /\ t.kind = "dkgFinalize"
    /\ ApplyDkg(n, dkgFinalizeSaveFails(n, dkg[n], t), {t}, chan)
    /\ UNCHANGED <<now, uuids, budget>>

NextDkgHonest ==
  \E n \in NodeIds :
    \/ InitiateDkg(n)
    \/ ResumeDkgFinalize(n)
    \/ \E a \in NodeIds \ {n} : DeliverDkg(a, n)

ThreeNodes == [NoBudget EXCEPT !.nodes = {1, 2, 3}, !.secrets = DkgSecrets]

SpecDkgHonest == InitWith(ThreeNodes) /\ [][NextDkgHonest]_vars

\* A ceremony of two honest nodes with a clock and timers that expire.
NextDkgTimers ==
  \/ NextDkgHonest
  \/ Tick
  \/ \E n \in NodeIds : TimeoutDkg(n)

SpecDkgTimers == InitWith([NoBudget EXCEPT !.ticks = MaxClock]) /\ [][NextDkgTimers]_vars

\* Honest nodes whose key share store can fail.
NextDkgStorage == \/ NextDkgHonest \/ \E n \in NodeIds : FailDkgSave(n)

SpecDkgStorage == InitWith(ThreeNodes) /\ [][NextDkgStorage]_vars

\* Party a tampers with the Round 3 share it sends to b: it adds 1 to the
\* scalar before encrypting it.
TamperShare(a, b) ==
  /\ budget.crafted > 0
  /\ \E i \in DOMAIN chan[<<a, b>>] :
       /\ chan[<<a, b>>][i].type = "DKG_ROUND3_P2P"
       /\ chan' = [chan EXCEPT ![<<a, b>>][i].payload.encryptedShare.plaintext = @ + 1]
  /\ budget' = [budget EXCEPT !.crafted = @ - 1]
  /\ turn' = 1 - turn
  /\ UNCHANGED <<coord, dkg, tasks, emitted, sent, now, uuids, raced, call, net>>

NextDkgTampered ==
  \/ NextDkgHonest
  \/ \E a \in NodeIds : \E b \in NodeIds \ {a} : TamperShare(a, b)

\* The ceremony of three nodes in which a party tampers with a share.
SpecDkgTampered ==
  InitWith([ThreeNodes EXCEPT !.crafted = MaxCrafted]) /\ [][NextDkgTampered]_vars

\* Something is left to run: a suspended continuation, a message in a
\* channel, or the operator's request.
Runnable ==
  \/ \E n \in Nodes : tasks[n] # {}
  \/ \E pr \in Nodes \X Nodes : chan[pr] # <<>>
  \/ \E n \in Initiators : Idle(n) /\ budget.sessions > 0

\* One callback of an event loop.
EventLoopTurn == Runnable /\ turn' = 1 - turn

\* Honest nodes under the scheduling of the event loop: as long as something
\* is left to run, a callback is run.
Fairness == WF_turn(EventLoopTurn)

SpecHonestFair == Init /\ [][NextHonest]_vars /\ Fairness

\* The ceremony of three nodes under the same scheduling, with draws for which
\* no proof, share or key is 0 mod q.
RegularDraws == [ThreeNodes EXCEPT !.secrets = {6}]

SpecDkgHonestFair == InitWith(RegularDraws) /\ [][NextDkgHonest]_vars /\ Fairness

\* =========================================================================
\* Properties.
Events(n) == {emitted[n][i] : i \in DOMAIN emitted[n]}

Sent(n) == {sent[n][i] : i \in DOMAIN sent[n]}

LastEvent(e) == e[Len(e)]

\* P + T*G for the address index.
DerivedPubKey(derivationPath) ==
  LET ks == KeyShareOf[CHOOSE n \in Nodes : TRUE]
  IN  pointAdd(ks.pkMaster,
               scalarMulG(computeChildKeyTweak(ks.pkMaster, ks.chainCode, derivationPath)))

SignatureValid(sig, txHash, derivationPath) ==
  /\ ecdsaVerify(sig.r, sig.s, txHash, DerivedPubKey(derivationPath))
  /\ sig.s <= CURVE_ORDER \div 2

\* The finalize continuations that ran in this step at n.
FinalizeRan(n) == {t \in tasks[n] \ tasks'[n] : t.kind = "finalize"}

\* The startRound1 continuations that ran in this step at n.
Round1Ran(n) == {t \in tasks[n] \ tasks'[n] : t.kind = "startRound1"}

\* The step hands the oldest message from a to b to b's coordinator.
Delivered(a, b) == chan[<<a, b>>] # <<>> /\ chan'[<<a, b>>] = Tail(chan[<<a, b>>])

\* C1: every 'complete' event a coordinator emits, through its own finalize()
\* or through an inbound SIGN_COMPLETE, carries a signature that verifies
\* under the derived child key P + T*G for the session's txHash, with s <= n/2.
C1_CompleteCarriesValidSignature ==
  \A n \in Nodes : \A e \in Events(n) :
    e.event = "complete" => SignatureValid(e.sig, e.txHash, e.derivationPath)

\* C2: a node broadcasts SIGN_COMPLETE only in the step in which its own
\* finalize() verified the assembled signature under the derived child key;
\* when that verification fails the node aborts and sends nothing.
C2_CompleteOnlyAfterOwnVerification ==
  [][\A n \in Nodes :
       /\ \A t \in FinalizeRan(n) :
            ~(HasSession(coord[n])
              /\ SignatureValid(t.sig, coord[n].session.txHash,
                                coord[n].session.derivationPath))
            => /\ sent'[n] = sent[n]
               /\ Len(emitted'[n]) = Len(emitted[n]) + 1
               /\ LastEvent(emitted'[n]).event = "aborted"
               /\ ~HasSession(coord'[n])
       /\ \A i \in DOMAIN sent'[n] :
            (i > Len(sent[n]) /\ sent'[n][i].type = "SIGN_COMPLETE")
            => \E t \in FinalizeRan(n) :
                 /\ sent'[n][i].payload.signature = t.sig
                 /\ HasSession(coord[n])
                 /\ SignatureValid(t.sig, coord[n].session.txHash,
                                   coord[n].session.derivationPath)]_vars

\* A node's finalize() found the assembled signature invalid: the node
\* aborted and has broadcast no SIGN_COMPLETE.
C2_Witness ==
  \E n \in Nodes :
    /\ emitted[n] # <<>>
    /\ LastEvent(emitted[n]).reason = "Signature verification failed"
    /\ \A m \in Sent(n) : m.type # "SIGN_COMPLETE"

ForgedRequest(msg) ==
  /\ msg.type = "SIGN_REQUEST"
  /\ computeSigningHash(msg.payload.rawTx) # msg.payload.txHash

\* C3: a node that is handed a SIGN_REQUEST whose txHash differs from the hash
\* it recomputes from rawTx leaves its coordinator state unchanged, replies
\* nothing and starts nothing; no SIGN_ACCEPT ever names such a request.
C3_ForgedRequestIgnored ==
  [][\A a, b \in Nodes :
       (Delivered(a, b) /\ ForgedRequest(Head(chan[<<a, b>>])))
       => /\ coord'[b] = coord[b]
          /\ tasks'[b] = tasks[b]
          /\ sent'[b] = sent[b]
          /\ emitted'[b] = emitted[b]
          /\ \A m \in Sent(b) :
               m.type = "SIGN_ACCEPT"
               => m.payload.sessionId # Head(chan[<<a, b>>]).payload.sessionId]_vars

\* The forged request of node 1 has been handed to node 2, which is as it
\* was constructed.
C3_Witness ==
  /\ \E m \in Sent(1) : ForgedRequest(m)
  /\ chan[<<1, 2>>] = <<>>
  /\ coord[2] = InitCoordinator
  /\ tasks[2] = {}
  /\ sent[2] = <<>>

Round2Count(n, sid, peer) ==
  Cardinality({i \in DOMAIN sent[n] :
                 /\ sent[n][i].type = "SIGN_ROUND2"
                 /\ sent[n][i].to = peer
                 /\ sent[n][i].payload.sessionId = sid})

KeyGenDone(c) == HasSession(c) /\ c.session.myKi # -1

\* C4: no node sends more than one SIGN_ROUND2 to a peer in a session, and a
\* node that recorded its peer's SIGN_ROUND1 while its own key generation was
\* pending has, once the key generation is done, left Round 1 and sent exactly
\* one SIGN_ROUND2 to each peer.
C4_Round2ExactlyOnceAfterRace ==
  \A n \in Nodes :
    /\ \A sid \in 1 .. uuids, peer \in Nodes : Round2Count(n, sid, peer) <= 1
    /\ (/\ KeyGenDone(coord[n])
        /\ <<n, coord[n].session.sessionId>> \in raced
        /\ MapSize(coord[n].session.round1Received) = Len(coord[n].session.signers) - 1)
       => /\ coord[n].session.status # "round1"
          /\ \A peer \in SignerIds(coord[n].session.signers) \ {n} :
               Round2Count(n, coord[n].session.sessionId, peer) = 1

\* A node whose key generation finished after it had recorded the peer's
\* SIGN_ROUND1 has sent its SIGN_ROUND2.
C4_Witness ==
  \E n \in Nodes :
    /\ KeyGenDone(coord[n])
    /\ <<n, coord[n].session.sessionId>> \in raced
    /\ \E peer \in Nodes : Round2Count(n, coord[n].session.sessionId, peer) = 1

OwnRound1Fields ==
  {"myKi", "myGammaI", "myGammaIPoint", "myPaillierN", "myPaillierLambda", "myPaillierMu"}

Round2Fields == {"status", "myBetaDelta", "myBetaSigma"}

\* C5: when startRound1 resumes after the key generation in a node that still
\* holds a session, the session keeps every field it had, in particular the
\* round1Received, peerPaillierN, peerKiEnc and peerKiCommitment entries
\* written meanwhile; the step only sets the node's own k_i, gamma_i,
\* gamma_i*G and Paillier key (and what the start of Round 2 sets).
C5_ResumePreservesPeerEntries ==
  [][\A n \in Nodes :
       (Round1Ran(n) # {} /\ HasSession(coord[n]))
       => /\ HasSession(coord'[n])
          /\ \A f \in (DOMAIN coord[n].session) \ (OwnRound1Fields \cup Round2Fields) :
               coord'[n].session[f] = coord[n].session[f]
          /\ \A t \in Round1Ran(n) :
               \A f \in OwnRound1Fields : coord'[n].session[f] # -1]_vars

\* A node resumed after the key generation and holds both the peer entries
\* recorded during the key generation and its own fresh values.
C5_Witness ==
  \E n \in Nodes :
    /\ KeyGenDone(coord[n])
    /\ <<n, coord[n].session.sessionId>> \in raced
    /\ DOMAIN coord[n].session.round1Received # {}
    /\ DOMAIN coord[n].session.peerPaillierN # {}
    /\ DOMAIN coord[n].session.peerKiEnc # {}
    /\ DOMAIN coord[n].session.peerKiCommitment # {}

\* C6: when the key generation of startRound1 returns after the session it
\* was started for has been reset (aborted, possibly followed by the creation
\* of another session), what it generated is written into no session and no
\* SIGN_ROUND1 carrying it is sent.
C6_StaleKeyGenDiscarded ==
  [][\A n \in Nodes : \A t \in Round1Ran(n) :
       coord[n].session.sessionId # t.state.sessionId
       => /\ coord'[n].session = coord[n].session
          /\ sent'[n] = sent[n]]_vars

RoundReceived(session, type) ==
  CASE type = "SIGN_ROUND1" -> session.round1Received
    [] type = "SIGN_ROUND2" -> session.round2Received
    [] type = "SIGN_ROUND3" -> session.round3Received
    [] type = "SIGN_ROUND4" -> session.round4Received

\* msg is a round message of b's session from a sender whose message of that
\* round b has recorded.
SecondRoundMessage(b, msg) ==
  /\ msg.type \in RoundTypes
  /\ HasSession(coord[b])
  /\ msg.payload.sessionId = coord[b].session.sessionId
  /\ MapHas(RoundReceived(coord[b].session, msg.type), msg.payload.fromNodeId)

\* C7: a second SIGN_ROUNDk message (k = 1..4) from a sender whose round-k
\* message the receiver has recorded in the session makes the receiver abort
\* (one 'aborted' event, session dropped, nothing recorded or sent), in
\* whatever round the receiver is.
C7_SecondRoundMessageAborts ==
  [][\A a, b \in Nodes :
       (Delivered(a, b) /\ SecondRoundMessage(b, Head(chan[<<a, b>>])))
       => /\ ~HasSession(coord'[b])
          /\ Len(emitted'[b]) = Len(emitted[b]) + 1
          /\ LastEvent(emitted'[b]).event = "aborted"
          /\ sent'[b] = sent[b]]_vars

\* A node that had already broadcast its SIGN_ROUND3 aborted because a second
\* SIGN_ROUND1 arrived.
C7_Witness ==
  \E n \in Nodes :
    /\ emitted[n] # <<>>
    /\ LastEvent(emitted[n]).reason = "Equivocation detected: Round 1 duplicate"
    /\ \E m \in Sent(n) : m.type = "SIGN_ROUND3"

DkgRoundReceived(state, type) ==
  CASE type = "DKG_ROUND1" -> state.round1Received
    [] type = "DKG_ROUND2" -> state.round2Received
    [] type = "DKG_ROUND3_P2P" -> state.sharesReceived
    [] type = "DKG_ROUND4" -> state.publicKeySharesReceived

\* msg is a round message of b's ceremony from a sender whose message of that
\* round b has recorded.
SecondDkgMessage(b, msg) ==
  /\ msg.type \in DkgRoundTypes
  /\ DkgCeremonyOf(dkg[b], msg.payload)
  /\ msg.type = "DKG_ROUND3_P2P" => msg.payload.toNodeId = b
  /\ MapHas(DkgRoundReceived(dkg[b].state, msg.type), msg.payload.fromNodeId)

\* C8: in a DKG ceremony a second DKG_ROUND1, DKG_ROUND2, DKG_ROUND3_P2P or
\* DKG_ROUND4 message from the same sender makes the receiver abort the
\* ceremony (state dropped, one 'aborted' event) and broadcast DKG_ABORT, and
\* the value recorded from the sender's first message is not replaced.
C8_SecondDkgMessageAborts ==
  [][\A a, b \in Nodes :
       (Delivered(a, b) /\ SecondDkgMessage(b, Head(chan[<<a, b>>])))
       => LET msg == Head(chan[<<a, b>>])
              sender == msg.payload.fromNodeId
          IN  /\ ~HasDkgState(dkg'[b])
              /\ Len(emitted'[b]) = Len(emitted[b]) + 1
              /\ LastEvent(emitted'[b]).event = "aborted"
              /\ \E i \in DOMAIN sent'[b] :
                   i > Len(sent[b]) /\ sent'[b][i].type = "DKG_ABORT"
              /\ HasDkgState(dkg'[b])
                 => DkgRoundReceived(dkg'[b].state, msg.type)[sender]
                      = DkgRoundReceived(dkg[b].state, msg.type)[sender]]_vars

BothComplete == \A n \in Nodes : \E e \in Events(n) : e.event = "complete"

NeitherAborted == \A n \in Nodes : \A e \in Events(n) : e.event # "aborted"

\* The aborts that a degenerate value of the random draws causes: a Schnorr
\* response or challenge, Delta, r, sigma_i, s_i or s that is 0 mod n.
DegenerateReasons ==
  {"Invalid gamma proof", "Invalid k_i proof", "deltaSum is zero", "r-value is zero",
   "invalid scalar", "Partial signature out of range", "Signature verification failed"}

DegenerateAbort ==
  \E n \in Nodes : \E e \in Events(n) :
    e.event = "aborted" /\ e.reason \in DegenerateReasons

C10_FinalizersAgree ==
  \A n1, n2 \in Nodes : \A e1 \in Events(n1), e2 \in Events(n2) :
    (/\ e1.event = "complete" /\ e1.via = "finalize"
     /\ e2.event = "complete" /\ e2.via = "finalize"
     /\ e1.sessionId = e2.sessionId)
    => e1.sig = e2.sig /\ e1.signedTxHex = e2.signedTxHex

\* Two different nodes finalized the same session.
C10_Witness ==
  \E e1 \in Events(1), e2 \in Events(2) :
    /\ e1.event = "complete" /\ e1.via = "finalize"
    /\ e2.event = "complete" /\ e2.via = "finalize"
    /\ e1.sessionId = e2.sessionId

\* n finished the ceremony: it emitted 'complete' and its share is on disk.
DkgCompleted(n) ==
  /\ \E e \in Events(n) : e.event = "complete"
  /\ dkg[n].keyShareStore # <<>>

DkgAborted(n) == \E e \in Events(n) : e.event = "aborted"

\* C11: with three honest nodes, threshold 2, reliable in-order delivery
\* between each pair of nodes and no timer expiry, no node ever aborts and
\* eventually all three nodes have reached 'complete'.
C11_EveryCeremonyCompletes ==
  /\ [](\A n \in Nodes : ~DkgAborted(n))
  /\ <>(\A n \in Nodes : DkgCompleted(n))

\* The key shares n's keyShareStore holds.
SharesHeld(n) == {dkg[n].keyShareStore[i] : i \in DOMAIN dkg[n].keyShareStore}

\* C12: any two nodes that completed the same ceremony hold the same master
\* public key and the same chain code, and announced them in 'complete'.
C12_CompletedNodesAgree ==
  \A n1, n2 \in Nodes : \A k1 \in SharesHeld(n1), k2 \in SharesHeld(n2) :
    k1.ceremonyId = k2.ceremonyId =>
      /\ k1.pkMaster = k2.pkMaster
      /\ k1.chainCode = k2.chainCode
      /\ \A e \in Events(n1) :
           e.event = "complete" => e.pkMaster = k2.pkMaster /\ e.chainCode = k2.chainCode

\* All three nodes completed the ceremony.
C12_Witness == \A n \in NodeIds : n \in Nodes /\ DkgCompleted(n)

\* The shares of ceremony cid that n holds.
HeldFor(n, cid) == {k \in SharesHeld(n) : k.ceremonyId = cid}

\* sum over the shares of L_i(0) * x_i, for one share of each party of a subset.
Interpolated(shares) ==
  SumFn([k \in shares |->
           scalarMul(lagrangeCoeff(k.partyIndex,
                                   SeqOfSet({j.partyIndex : j \in shares \ {k}})),
                     k.secretShare)]) % CURVE_ORDER

\* One share of each node of S, in every way the nodes' stores allow.
ShareChoices(S, cid) ==
  {{f[n] : n \in S} : f \in {g \in [S -> UNION {HeldFor(n, cid) : n \in S}] :
                                  \A n \in S : g[n] \in HeldFor(n, cid)}}

\* C13: for every completed ceremony and every subset S of t of its parties,
\* the persisted shares x_i satisfy (sum over S of L_i(0) * x_i) * G = P for the
\* master public key P those nodes persisted.
C13_SharesInterpolateToMasterKey ==
  \A cid \in 1 .. uuids : \A S \in SUBSET Nodes :
    Cardinality(S) = DkgThreshold =>
      \A shares \in ShareChoices(S, cid) : \A k \in shares :
        scalarMulG(Interpolated(shares)) = k.pkMaster

\* Every subset of two of the three parties has shares to interpolate.
C13_Witness ==
  /\ Cardinality(Nodes) = 3
  /\ \A S \in SUBSET Nodes : Cardinality(S) = DkgThreshold => ShareChoices(S, 1) # {}

\* msg is a Round 3 share for b's ceremony that fails the Feldman
\* verification against the Round 2 commitments b recorded from its sender.
FailingShare(b, msg) ==
  /\ msg.type = "DKG_ROUND3_P2P"
  /\ DkgCeremonyOf(dkg[b], msg.payload)
  /\ msg.payload.toNodeId = b
  /\ MapHas(dkg[b].state.round2Received, msg.payload.fromNodeId)
  /\ verifyFeldmanShare(msg.payload.encryptedShare.plaintext, dkg[b].state.myPartyIndex,
        dkg[b].state.round2Received[msg.payload.fromNodeId].coefficientCommitments)
       # "valid"

FeldmanAborted(n) ==
  \E e \in Events(n) : e.event = "aborted" /\ e.reason = "Feldman VSS verification failed"

NoShareWritten == \A n \in Nodes : dkg[n].keyShareStore = <<>>

\* C14: a party that receives a Round 3 share failing the Feldman verification
\* aborts the ceremony in that step (state dropped, one 'aborted' event,
\* DKG_ABORT broadcast, the share not recorded), no node has written a key
\* share by then, and none writes one afterwards.
C14_FailingShareAborts ==
  /\ [][\A a, b \in Nodes :
          (Delivered(a, b) /\ FailingShare(b, Head(chan[<<a, b>>])))
          => /\ ~HasDkgState(dkg'[b])
             /\ Len(emitted'[b]) = Len(emitted[b]) + 1
             /\ LastEvent(emitted'[b]).event = "aborted"
             /\ \E i \in DOMAIN sent'[b] :
                  i > Len(sent[b]) /\ sent'[b][i].type = "DKG_ABORT"
             /\ NoShareWritten /\ NoShareWritten']_vars
  /\ []((\E n \in Nodes : FeldmanAborted(n)) => NoShareWritten)

\* A party aborted on a tampered share while another party was past Round 3.
C14_Witness ==
  \E n, m \in Nodes :
    /\ FeldmanAborted(n)
    /\ LastEvent(emitted[n]).reason = "Feldman VSS verification failed"
    /\ m # n
    /\ \E msg \in Sent(m) : msg.type = "DKG_ROUND4"

\* The place of a status on the path round1 -> round2 -> round3 -> round4.
StatusRank(status) ==
  CASE status = "round1" -> 1
    [] status = "round2" -> 2
    [] status = "round3" -> 3
    [] status = "round4" -> 4
    [] OTHER -> 5

SameSession(n) ==
  /\ HasSession(coord[n])
  /\ HasSession(coord'[n])
  /\ coord'[n].session.sessionId = coord[n].session.sessionId

\* C15: while a node holds one signing session, no step lowers the session's
\* status on the path round1 -> round2 -> round3 -> round4.
C15_StatusMovesForward ==
  [][\A n \in Nodes :
       SameSession(n)
       => StatusRank(coord'[n].session.status) >= StatusRank(coord[n].session.status)]_vars

\* The round a round message belongs to.
RoundOf(type) ==
  CASE type = "SIGN_ROUND1" -> 1
    [] type = "SIGN_ROUND2" -> 2
    [] type = "SIGN_ROUND3" -> 3
    [] type = "SIGN_ROUND4" -> 4
    [] OTHER -> 0

\* msg is a round message of b's session, from a signer, for a round b's
\* session has not reached.
FutureRound(a, b, msg) ==
  /\ HasSession(coord[b])
  /\ msg.type \in RoundTypes
  /\ msg.payload.sessionId = coord[b].session.sessionId
  /\ msg.payload.fromNodeId = a
  /\ IsSigner(coord[b], a)
  /\ msg.type = "SIGN_ROUND2" => msg.payload.toNodeId = b
  /\ StatusRank(coord[b].session.status) < RoundOf(msg.type)

\* C16: handling a round message for a round the local session has not
\* reached changes nothing: the message is not recorded, the session is not
\* aborted, no event is emitted and nothing is sent.
C16_FutureRoundIgnored ==
  [][\A a, b \in Nodes :
       (Delivered(a, b) /\ FutureRound(a, b, Head(chan[<<a, b>>])))
       => /\ coord'[b] = coord[b]
          /\ emitted'[b] = emitted[b]
          /\ sent'[b] = sent[b]]_vars

\* The handler of a SIGN_ACCEPT from a created n's session.
SessionFixed(a, n) ==
  /\ Delivered(a, n)
  /\ Head(chan[<<a, n>>]).type = "SIGN_ACCEPT"
  /\ ~HasSession(coord[n])
  /\ HasSession(coord'[n])

\* C17: the initiator creates its session only when threshold - 1 nodes have
\* accepted, and every session has exactly threshold signers, the threshold
\* being the one of the ceremony that produced the key shares.
C17_SignerSetHasThresholdSize ==
  /\ [][\A a, n \in Nodes :
          SessionFixed(a, n)
          => MapSize(coord'[n].acceptedSigners) >= KeyShareOf[n].threshold - 1]_vars
  /\ [](\A n \in Nodes :
          HasSession(coord[n])
          => Len(coord[n].session.signers) = KeyShareOf[n].threshold)

\* b holds a session whose deadline has passed.
Expired(b) == HasSession(coord[b]) /\ now > coord[b].session.deadline

\* msg is a message of b's session sent by signer a.
CurrentSessionMessage(a, b, msg) ==
  /\ msg.type \in RoundTypes \cup {"SIGN_COMPLETE"}
  /\ msg.payload.sessionId = coord[b].session.sessionId
  /\ IsSigner(coord[b], a)
  /\ msg.type = "SIGN_ROUND2" => msg.payload.toNodeId = b

\* C18: a node that handles a message of its current session after the
\* session's deadline aborts: it drops the session and emits 'aborted', and
\* nothing else.  No SIGN_COMPLETE is applied after the deadline.
C18_ExpiredSessionAborts ==
  /\ [][\A a, b \in Nodes :
          (Delivered(a, b) /\ Expired(b)
             /\ CurrentSessionMessage(a, b, Head(chan[<<a, b>>])))
          => /\ ~HasSession(coord'[b])
             /\ Len(emitted'[b]) = Len(emitted[b]) + 1
             /\ LastEvent(emitted'[b]).event = "aborted"]_vars
  /\ [][\A b \in Nodes :
          (Expired(b) /\ Len(emitted'[b]) > Len(emitted[b]))
          => LastEvent(emitted'[b]).via # "onComplete"]_vars

\* n, holding a session, aborts it in this step.
AbortsSession(n) ==
  /\ HasSession(coord[n])
  /\ ~HasSession(coord'[n])
  /\ Len(emitted'[n]) = Len(emitted[n]) + 1
  /\ LastEvent(emitted'[n]).event = "aborted"

\* C19: a node that aborts its signing session sends SIGN_ABORT to its peers
\* in the same step.
C19_AbortIsBroadcast ==
  [][\A n \in Nodes :
       AbortsSession(n)
       => \E i \in DOMAIN sent'[n] :
            i > Len(sent[n]) /\ sent'[n][i].type = "SIGN_ABORT"]_vars

\* The coordinator holds no session material and no timer is armed.
HoldsNothing(c) ==
  /\ ~HasSession(c)
  /\ c.cachedSecretShare = -1
  /\ c.cachedR = -1
  /\ c.initiatorKeyShare = NoKeyShare
  /\ c.pendingRawTx = NoRawTx
  /\ c.pendingTxHash = -1
  /\ c.pendingDerivationPath = -1
  /\ c.acceptedSigners = EmptyMap
  /\ ~c.timeoutHandle.armed

\* n emits an event in this step.
Emits(n) == Len(emitted'[n]) > Len(emitted[n])

\* A handler of n that was suspended in the key generation of Round 1 or in
\* finalize() returns in this step.
StaleReturn(n) ==
  \E t \in tasks[n] \ tasks'[n] : t.kind \in {"startRound1", "finalize"}

Settled(n) == emitted[n] # <<>> /\ tasks[n] = {}

C21_PolynomialErasedAfterComplete ==
  \A n \in Nodes :
    (DkgCompleted(n) /\ HasDkgState(dkg[n])) => dkg[n].state.secretPolynomial = <<>>

\* n has aborted ceremony cid: as its initiator, or as a party that held the
\* ceremony's state and announced the abort.
AbortedCeremony(n, cid) ==
  \/ /\ DkgAborted(n)
     /\ \E msg \in Sent(n) : msg.type = "DKG_PROPOSE" /\ msg.payload.ceremonyId = cid
  \/ \E msg \in Sent(n) : msg.type = "DKG_ABORT" /\ msg.payload.ceremonyId = cid

\* The messages n sends in this step.
NewlySent(n) == {sent'[n][i] : i \in (Len(sent[n]) + 1) .. Len(sent'[n])}

\* C22: a node that has aborted a ceremony holds no state of that ceremony
\* in any later step, sends no round message for it and saves no share of it.
C22_AbortedCeremonyStaysAborted ==
  [][\A n \in Nodes : \A cid \in 1 .. uuids :
       AbortedCeremony(n, cid)
       => /\ ~(HasDkgState(dkg'[n]) /\ dkg'[n].state.ceremonyId = cid)
          /\ \A msg \in NewlySent(n) :
               msg.type \in DkgRoundTypes => msg.payload.ceremonyId # cid
          /\ \A k \in SharesHeld(n)' : k.ceremonyId = cid => k \in SharesHeld(n)]_vars

\* The sessions for which n has emitted 'complete', one entry per event.
CompleteEvents(n) == {i \in DOMAIN emitted[n] : emitted[n][i].event = "complete"}

\* n has finalized session sid, or its finalize() for it is suspended.
FinalizedOrFinalizing(n, sid) ==
  \/ \E i \in CompleteEvents(n) : emitted[n][i].sessionId = sid
  \/ /\ \E t \in tasks[n] : t.kind = "finalize"
     /\ HasSession(coord[n]) /\ coord[n].session.sessionId = sid

\* C23: a node emits 'complete' at most once for a session id, and a
\* SIGN_COMPLETE handled after the node finalized the session, or while its
\* finalize() is suspended, emits nothing.
C23_CompleteAtMostOnce ==
  /\ [](\A n \in Nodes : \A i, j \in CompleteEvents(n) :
          emitted[n][i].sessionId = emitted[n][j].sessionId => i = j)
  /\ [][\A a, b \in Nodes :
          (/\ Delivered(a, b)
           /\ Head(chan[<<a, b>>]).type = "SIGN_COMPLETE"
           /\ FinalizedOrFinalizing(b, Head(chan[<<a, b>>]).payload.sessionId))
          => emitted'[b] = emitted[b]]_vars

\* A SIGN_COMPLETE is about to be handled by a node that has emitted
\* 'complete' for its session.
C23_Witness ==
  \E a, b \in Nodes :
    /\ chan[<<a, b>>] # <<>>
    /\ Head(chan[<<a, b>>]).type = "SIGN_COMPLETE"
    /\ \E i \in CompleteEvents(b) :
         emitted[b][i].sessionId = Head(chan[<<a, b>>]).payload.sessionId

\* N is odd, at least the bound, coprime to the curve order and no square.
WellFormedModulus(N) ==
  /\ N % 2 = 1
  /\ N >= PAILLIER_MIN_MODULUS
  /\ \A d \in 2 .. CURVE_ORDER : ~(N % d = 0 /\ CURVE_ORDER % d = 0)
  /\ \A r \in 0 .. N : r * r # N

\* msg is a Round 1 message of b's session from signer a, not yet recorded.
Round1Of(a, b, msg) ==
  /\ HasSession(coord[b])
  /\ msg.type = "SIGN_ROUND1"
  /\ msg.payload.sessionId = coord[b].session.sessionId
  /\ msg.payload.fromNodeId = a
  /\ IsSigner(coord[b], a)

\* C24: every peer modulus a session holds is well formed, and a Round 1
\* message with any other modulus makes the receiver abort: it records
\* nothing and sends no SIGN_ROUND2.
C24_OnlyWellFormedModuliUsed ==
  /\ [](\A n \in Nodes :
          HasSession(coord[n])
          => \A j \in DOMAIN coord[n].session.peerPaillierN :
               WellFormedModulus(coord[n].session.peerPaillierN[j]))
  /\ [][\A a, b \in Nodes :
          (/\ Delivered(a, b)
           /\ Round1Of(a, b, Head(chan[<<a, b>>]))
           /\ ~WellFormedModulus(Head(chan[<<a, b>>]).payload.paillierN))
          => /\ ~HasSession(coord'[b])
             /\ LastEvent(emitted'[b]).event = "aborted"
             /\ \A msg \in NewlySent(b) : msg.type # "SIGN_ROUND2"]_vars

\* A node has aborted on a Round 1 message that announced a square modulus.
C24_Witness ==
  \E n \in Nodes :
    /\ emitted[n] # <<>>
    /\ LastEvent(emitted[n]).reason = "Paillier modulus is a perfect square"

\* msg is the Round 3 message of signer a that completes Round 3 of b's
\* session.
LastRound3Of(a, b, msg) ==
  /\ HasSession(coord[b])
  /\ coord[b].session.status = "round3"
  /\ msg.type = "SIGN_ROUND3"
  /\ msg.payload.sessionId = coord[b].session.sessionId
  /\ msg.payload.fromNodeId = a
  /\ IsSigner(coord[b], a)
  /\ ~MapHas(coord[b].session.round3Received, a)
  /\ MapSize(coord[b].session.round3Received) = Len(coord[b].session.signers) - 2

\* Delta and r as node b aggregates them once msg is recorded.
AggregatedDelta(b, msg) == (DeltaSum(coord[b].session) + msg.payload.deltaShare) % CURVE_ORDER

AggregatedR(b, msg) ==
  xCoord(pointMul(GammaPointSum(coord[b].session), scalarInv(AggregatedDelta(b, msg))))
  % CURVE_ORDER

\* C25: when the Round 3 message that completes the round makes Delta = 0
\* or r = 0, the node aborts the session: it emits 'aborted' and nothing
\* else, holds no session, broadcasts no SIGN_ROUND4 and emits no 'complete'
\* for the session.
C25_DegenerateAborts ==
  [][\A a, b \in Nodes :
       (/\ Delivered(a, b)
        /\ LastRound3Of(a, b, Head(chan[<<a, b>>]))
        /\ \/ AggregatedDelta(b, Head(chan[<<a, b>>])) = 0
           \/ AggregatedR(b, Head(chan[<<a, b>>])) = 0)
       => /\ ~HasSession(coord'[b])
          /\ Len(emitted'[b]) = Len(emitted[b]) + 1
          /\ LastEvent(emitted'[b]).event = "aborted"
          /\ \A i \in DOMAIN emitted[b] : emitted'[b][i] = emitted[b][i]
          /\ \A msg \in NewlySent(b) : msg.type \notin {"SIGN_ROUND4", "SIGN_COMPLETE"}]_vars

\* A node has aborted in Round 4 because r was zero.
C25_Witness ==
  \E n \in Nodes :
    /\ emitted[n] # <<>>
    /\ LastEvent(emitted[n]).reason = "r-value is zero"

\* C26: at every point of a ceremony, for each peer j whose Round 2 opening
\* is recorded, the hash of j's recorded coefficient points and blinding
\* factor is the Round 1 commitment currently recorded for j.
C26_OpeningMatchesCommitment ==
  \A n \in Nodes :
    HasDkgState(dkg[n])
    => \A j \in DOMAIN dkg[n].state.round2Received :
         /\ MapHas(dkg[n].state.round1Received, j)
         /\ sha256(dkg[n].state.round2Received[j].coefficientCommitments
                     \o <<dkg[n].state.round2Received[j].blindingFactor>>)
              = dkg[n].state.round1Received[j]

\* finalize() of node n resumes in this step and save() stores nothing.
SaveFailed(n) ==
  /\ \E t \in tasks[n] : t.kind = "dkgFinalize" /\ t \notin tasks'[n]
  /\ dkg'[n].keyShareStore = dkg[n].keyShareStore

\* C27: when KeyShareStore.save fails during finalization the node emits
\* 'aborted' and nothing else, and it broadcasts no DKG_COMPLETE.
C27_SaveFailureAborts ==
  [][\A n \in Nodes :
       SaveFailed(n)
       => /\ Len(emitted'[n]) = Len(emitted[n]) + 1
          /\ \A i \in DOMAIN emitted[n] : emitted'[n][i] = emitted[n][i]
          /\ LastEvent(emitted'[n]).event = "aborted"
          /\ \A msg \in NewlySent(n) : msg.type # "DKG_COMPLETE"]_vars

\* A node aborted a ceremony because its share could not be saved.
C27_Witness ==
  \E n \in Nodes :
    /\ emitted[n] # <<>>
    /\ LastEvent(emitted[n]).event = "aborted"
    /\ LastEvent(emitted[n]).reason = "No encryption backend configured"
    /\ SharesHeld(n) = {}

\* Node n holds a session for which Round 4 ran.
InRound4(n) ==
  /\ HasSession(coord[n])
  /\ coord[n].session.status = "round4"
  /\ coord[n].session.myPartialSig # -1

\* S: the sum of the partial signatures node n holds, its own included.
PartialSigSum(n) ==
  (coord[n].session.myPartialSig
     + SumFn([j \in DOMAIN coord[n].session.round4Received |->
                coord[n].session.round4Received[j].partialSig])) % CURVE_ORDER

\* The parity of the y-coordinate of R = Delta^-1 * Gamma.
ParityOfR(n) ==
  yParity(pointMul(GammaPointSum(coord[n].session), scalarInv(DeltaSum(coord[n].session))))

Min(x, y) == IF x <= y THEN x ELSE y

\* C28: assembleSignature returns s = min(S, n - S), so s <= floor(n/2), and
\* v = 27 + parity(R.y) with the parity flipped exactly when S > floor(n/2),
\* so v is 27 or 28.
C28_LowSAndRecoveryBit ==
  \A n \in Nodes :
    InRound4(n)
    => LET a == assembleSignature(coord[n].session, coord[n].cachedR)
           S == PartialSigSum(n)
       IN  /\ a.err = ""
           /\ a.sig.s = Min(S, CURVE_ORDER - S)
           /\ 2 * a.sig.s <= CURVE_ORDER
           /\ a.sig.v = 27 + (IF 2 * S > CURVE_ORDER THEN 1 - ParityOfR(n) ELSE ParityOfR(n))
           /\ a.sig.v \in {27, 28}
           /\ a.sig.r = coord[n].cachedR

\* A node holds partial signatures whose sum is above n/2, for an R of odd y.
C28_Witness ==
  \E n \in Nodes :
    /\ InRound4(n)
    /\ MapSize(coord[n].session.round4Received) = Len(coord[n].session.signers) - 1
    /\ 2 * PartialSigSum(n) > CURVE_ORDER
    /\ ParityOfR(n) = 1

\* Every node holds the session sid and has computed its Round 3 shares.
SharesComputed(sid) ==
  \A n \in Nodes :
    /\ HasSession(coord[n])
    /\ coord[n].session.sessionId = sid
    /\ coord[n].session.myDeltaI # -1
    /\ coord[n].session.mySigmaI # -1

\* K, Gamma and the sum of the delta shares of the signers.
NonceSum == SumFn([n \in Nodes |-> coord[n].session.myKi]) % CURVE_ORDER

GammaSum == SumFn([n \in Nodes |-> coord[n].session.myGammaI]) % CURVE_ORDER

DeltaShareSum == SumFn([n \in Nodes |-> coord[n].session.myDeltaI]) % CURVE_ORDER

MasterSecret == SharePolynomial[1]

TweakOf(derivationPath) == computeChildKeyTweak(scalarMulG(MasterSecret), 0, derivationPath)

\* The nodes of S are the signers of session sid and each has computed its
\* Round 3 shares.
SubsetComputed(sid, S) ==
  /\ S # {}
  /\ \A n \in S :
       /\ HasSession(coord[n])
       /\ coord[n].session.sessionId = sid
       /\ SignerIds(coord[n].session.signers) = S
       /\ coord[n].session.mySigmaI # -1

\* The Lagrange weight of signer n in the signing subset S.
WeightOf(n, S) ==
  lagrangeCoeff(KeyShareOf[n].partyIndex,
                SeqOfSet({KeyShareOf[m].partyIndex : m \in S \ {n}}))

C31_ReconstructReturnsSecret ==
  (call.fn = "reconstructSecret" /\ call.returned)
  => /\ \A i \in DOMAIN call.shares :
          call.shares[i][2]
            = SumFn([k \in DOMAIN call.coefficients |->
                       call.coefficients[k] * call.shares[i][1] ^ (k - 1)]) % CURVE_ORDER
     /\ call.result = call.coefficients[1]

\* reconstructSecret returned for three shares of a polynomial of degree 2,
\* entered in descending order of the indices.
C31_Witness ==
  /\ call.fn = "reconstructSecret"
  /\ call.returned
  /\ Len(call.coefficients) = 3
  /\ call.coefficients[3] # 0
  /\ call.indices[1] > call.indices[2]
  /\ call.indices[2] > call.indices[3]

\* C32: for every key of the key generation, any a, b, beta < N and any
\* randomness the draw loops can yield,
\* Decrypt(sk, MtA(N, Encrypt(pk, a), b, beta)) = a * b + beta mod N.
C32_MtARoundTrip ==
  (call.fn = "paillierMtA" /\ call.returned)
  => call.result = (call.a * call.b + call.beta) % (call.p * call.q)

\* C33: all nodes that hold a session for the same sessionId hold the same
\* signer set, and a node outside the initiator's signer set sends no round
\* message for the session.
C33_OneSignerSetPerSession ==
  \A n, m \in Nodes :
    (/\ HasSession(coord[n]) /\ HasSession(coord[m])
     /\ coord[n].session.sessionId = coord[m].session.sessionId)
    => /\ SignerIds(coord[n].session.signers) = SignerIds(coord[m].session.signers)
       /\ \A msg \in Sent(m) :
            (msg.type \in RoundTypes /\ msg.payload.sessionId = coord[n].session.sessionId)
            => m \in SignerIds(coord[n].session.signers)

\* How often node b's NodeServer handed the payload to a coordinator.
TimesHanded(b, payload) ==
  Cardinality({i \in DOMAIN net.handed[b] : net.handed[b][i].payload = payload})

\* C34: a payload broadcast once is handed to the receiving node's
\* coordinator at most once, also when the two nodes are connected both ways.
C34_BroadcastHandedAtMostOnce ==
  net.links # {}
  => \A b \in NodeIds : \A payload \in net.broadcast : TimesHanded(b, payload) <= 1

\* The signing types SigningCoordinator.handleMessage has a case for.
SigningCoordinatorTypes ==
  {"SIGN_REQUEST", "SIGN_ACCEPT", "SIGN_ROUND1", "SIGN_ROUND2", "SIGN_ROUND3",
   "SIGN_ROUND4", "SIGN_COMPLETE", "SIGN_ABORT"}

\* The frame at the head of the connection is handled by b in this step.
FrameHandled(a, b, dir) ==
  /\ net.links # {}
  /\ net.wire[<<a, b, dir>>] # <<>>
  /\ net'.wire[<<a, b, dir>>] = Tail(net.wire[<<a, b, dir>>])

\* C35: every signing message type the SigningCoordinator handles is
\* forwarded to the 'signMessage' listeners when it is received from a peer
\* for the first time.
C35_SigningTypesForwarded ==
  [][\A a, b \in NodeIds : \A dir \in {"out", "in"} :
       (/\ FrameHandled(a, b, dir)
        /\ Head(net.wire[<<a, b, dir>>]).type \in SigningCoordinatorTypes
        /\ Head(net.wire[<<a, b, dir>>]).id \notin net.seen[b])
       => /\ Len(net'.handed[b]) = Len(net.handed[b]) + 1
          /\ LastEvent(net'.handed[b]).event = "signMessage"
          /\ LastEvent(net'.handed[b]).type = Head(net.wire[<<a, b, dir>>]).type
          /\ LastEvent(net'.handed[b]).payload = Head(net.wire[<<a, b, dir>>]).payload]_vars

\* C36: within one ceremony a node sends each of its round messages to each
\* peer at most once, saves its share at most once and emits 'complete' at
\* most once.
C36_DkgStepsAtMostOnce ==
  \A n \in Nodes : \A cid \in 1 .. uuids :
    /\ \A i, j \in DOMAIN sent[n] :
         (/\ sent[n][i].type \in DkgRoundTypes
          /\ sent[n][j].type = sent[n][i].type
          /\ sent[n][j].to = sent[n][i].to
          /\ sent[n][i].payload.ceremonyId = cid
          /\ sent[n][j].payload.ceremonyId = cid)
         => i = j
    /\ \A i, j \in DOMAIN dkg[n].keyShareStore :
         (/\ dkg[n].keyShareStore[i].ceremonyId = cid
          /\ dkg[n].keyShareStore[j].ceremonyId = cid)
         => i = j
    /\ Cardinality({i \in DOMAIN emitted[n] : emitted[n][i].event = "complete"}) <= 1

\* The node has neither a session nor a pending initiation: no request is
\* recorded, no handler is suspended at an await.
NoSessionNoInitiation(n) ==
  /\ ~HasSession(coord[n])
  /\ coord[n].pendingTxHash = -1
  /\ ~coord[n].sessionPending
  /\ tasks[n] = {}

\* The message does not belong to the session the node is in.
ForeignToSession(n, msg) ==
  \/ /\ msg.type \in {"SIGN_ABORT", "SIGN_ACCEPT"}
     /\ HasSession(coord[n])
     /\ msg.payload.sessionId # coord[n].session.sessionId
  \/ /\ msg.type \in SigningCoordinatorTypes \ {"SIGN_REQUEST"}
     /\ NoSessionNoInitiation(n)

\* C37: a signing message that does not belong to the node's current session
\* (a SIGN_ABORT or SIGN_ACCEPT with another sessionId, or any signing message
\* other than a request handled by a node with neither a session nor a pending
\* initiation) leaves the coordinator's fields as they were and emits no event.
C37_ForeignMessageIgnored ==
  [][\A a \in NodeIds : \A b \in NodeIds \ {a} :
       (Delivered(a, b) /\ ForeignToSession(b, Head(chan[<<a, b>>])))
       => (coord'[b] = coord[b] /\ emitted'[b] = emitted[b])]_vars

\* C38: for one ceremony a node never emits both 'complete' and 'aborted':
\* no node has both events in what it emitted, and a node that emitted
\* 'aborted' holds no saved share of the ceremony.
C38_NeverCompleteAndAborted ==
  \A n \in Nodes :
    /\ ~((\E e \in Events(n) : e.event = "complete") /\ DkgAborted(n))
    /\ DkgAborted(n) => SharesHeld(n) = {}

\* The handler of a SIGN_REQUEST is suspended on node n: at the load of the
\* key share, or in the Paillier key generation of the session it created.
RequestSuspended(n) ==
  \E t \in tasks[n] :
    \/ t.kind = "onRequest"
    \/ t.kind = "startRound1" /\ t.state.signers[1].nodeId # n

\* C39: a SIGN_REQUEST handled while the handler of an earlier one is still
\* suspended, or while a session exists, is ignored: it creates no session,
\* sends no SIGN_ACCEPT and leaves no continuation.
C39_SecondRequestIgnored ==
  [][\A a \in NodeIds : \A b \in NodeIds \ {a} :
       (/\ Delivered(a, b)
        /\ Head(chan[<<a, b>>]).type = "SIGN_REQUEST"
        /\ (RequestSuspended(b) \/ HasSession(coord[b])))
       => /\ coord'[b] = coord[b]
          /\ tasks'[b] = tasks[b]
          /\ sent'[b] = sent[b]
          /\ emitted'[b] = emitted[b]]_vars

====
